---- MODULE Spec2Model ----
(***************************************************************************)
(* A model of the kanban board's state engine (src/app.js): the store of   *)
(* boards -> columns -> projects -> {links, comments, activityLog}, its    *)
(* mutation operations, the activity logger, persistence to the storage    *)
(* blob, and the JSON / CSV codecs.                                        *)
(*                                                                         *)
(* Representation.                                                         *)
(*  - A JavaScript string is a sequence of letters.  The letters that the  *)
(*    code inspects (digits, "-", comma, quote, newline, cased letters)    *)
(*    are single characters; a literal that the code only copies           *)
(*    ("To Do", "Project created") is one letter of the alphabet.          *)
(*  - An entity id (generateId) is a natural number >= 1 taken from a      *)
(*    counter.  null is Null (0); the empty string chosen by the board     *)
(*    selector's placeholder option is EmptyId (-1).                       *)
(*  - A JavaScript array is a sequence; JavaScript index i is position     *)
(*    i + 1 of the sequence.                                               *)
(*  - Date.now() is the logical clock `clock`, which advances by one with  *)
(*    every handler; a handler reads one value of it.                      *)
(*  - A timestamp is tagged with its JavaScript type: a number (Date.now), *)
(*    a Date object (new Date()), or the ISO string JSON.stringify turns   *)
(*    a Date object into.                                                  *)
(***************************************************************************)
EXTENDS Integers, Sequences, FiniteSets, TLC

VARIABLES
  boards,            \* state.boards
  currentBoardId,    \* state.currentBoardId
  ids,               \* the next id generateId hands out
  clock,             \* Date.now()
  currentContext,    \* the project modal's editing context
  storageAvailable,  \* result of the startup probe
  started,           \* the DOMContentLoaded handler has run
  timer,             \* the auto-save interval is installed
  dragState,         \* the drag in progress
  blob,              \* the value stored under STORAGE_KEY
  lastBackupTime,    \* the value stored under 'lastBackupTime'
  file,              \* the snapshot file exportToJSON downloaded last, and the state it was taken from
  last,              \* the last handler that ran, its arguments and the state it started from
  field,             \* CSV codec: the field value given to escape
  escaped            \* CSV codec: what escape returned for it

vars == <<boards, currentBoardId, ids, clock, currentContext, storageAvailable, started,
          timer, dragState, blob, lastBackupTime, file, last, field, escaped>>

csvVars == <<field, escaped>>

----------------------------------------------------------------------------
(* Bounds of the model *)

MaxColumnOps == 4
MaxBoards == 2
MaxMoveOps == 5
MaxUpdateOps == 4
MaxCreateOps == 12
MaxFieldLen == 3
MaxImportOps == 7
MaxRejectOps == 3
MaxStoreOps == 2
MaxBoardOps == 5
MaxRestoreOps == 5
MaxDragOps == 7
MaxColumnDragOps == 5
MaxLinkOps == 6
MaxReorderOps == 4
MaxLoadOps == 5
MaxTickOps == 5
MaxFormOps == 6
MaxFrameOps == 5
MaxDisplayOps == 6
MaxCurrentOps == 4
MaxReactOps == 5

----------------------------------------------------------------------------
(* Values *)

Null == 0
EmptyId == -1

NoValue == [t |-> "null"]
StrValue(s) == [t |-> "string", v |-> s]
LinkValue(title, url) == [t |-> "object", title |-> title, url |-> url]

NumberTime(t) == [t |-> "number", ms |-> t]
DateTime(t) == [t |-> "Date", ms |-> t]
IsoTime(t) == [t |-> "string", ms |-> t]

NoContext ==
  [boardId |-> Null, columnId |-> Null, projectId |-> Null, linkId |-> Null,
   commentId |-> Null]

\* What [removed] = arr.splice(i, 1) binds when nothing was removed.
Undefined == [t |-> "undefined"]

NoBlob == [present |-> FALSE]

\* No drag is in progress.
NoDrag ==
  [type |-> "null", sourceId |-> Null, sourceColumnId |-> Null, sourceIndex |-> Null]

\* No snapshot file has been downloaded.
NoFile == [present |-> FALSE]

\* The currentBoardId of a document that has no such key.
UndefinedId == -2

\* escape has not run yet.
NotEscaped == [done |-> FALSE]

Min(a, b) == IF a < b THEN a ELSE b
Max(a, b) == IF a > b THEN a ELSE b

----------------------------------------------------------------------------
(* Array helpers *)

\* Array.prototype.findIndex(x => x.id === id): the position (1-based) of the
\* first element with that id, 0 when there is none (JavaScript's -1).
FindIndexById(arr, id) ==
  IF \E i \in 1..Len(arr) : arr[i].id = id
  THEN CHOOSE i \in 1..Len(arr) : arr[i].id = id /\ \A j \in 1..(i - 1) : arr[j].id # id
  ELSE 0

\* Array.prototype.splice's clamping of its start argument.
SpliceStart(arr, start) ==
  IF start < 0 THEN Max(Len(arr) + start, 0) ELSE Min(start, Len(arr))

\* arr.splice(start, 1): the array without the element at start (if any).
SpliceRemove(arr, start) ==
  LET s == SpliceStart(arr, start) IN
  IF s >= Len(arr) THEN arr
  ELSE SubSeq(arr, 1, s) \o SubSeq(arr, s + 2, Len(arr))

\* arr.splice(start, 0, item): the array with item inserted at start.
SpliceInsert(arr, start, item) ==
  LET s == SpliceStart(arr, start) IN
  SubSeq(arr, 1, s) \o <<item>> \o SubSeq(arr, s + 1, Len(arr))

\* The array with position i (1-based) replaced.
ReplaceAt(arr, i, item) == [arr EXCEPT ![i] = item]

----------------------------------------------------------------------------
(* The machine: the handlers below are functions from machine to machine. *)

\* writes: whether storage accepts this handler's setItem calls (FALSE: setItem
\* throws, for example QuotaExceededError).  saves counts the saveData calls,
\* failed those of them that returned false, asked records a confirm() dialog,
\* threw an exception that left the handler.
Machine(writes) ==
  [boards |-> boards, currentBoardId |-> currentBoardId, ids |-> ids, now |-> clock,
   currentContext |-> currentContext, storageAvailable |-> storageAvailable,
   started |-> started, timer |-> timer, dragState |-> dragState,
   blob |-> blob, lastBackupTime |-> lastBackupTime, file |-> file,
   writes |-> writes, saves |-> 0, failed |-> 0, asked |-> FALSE, threw |-> FALSE]

\* generateId: a fresh id.
generateId(m) == m.ids
AfterIds(m, n) == [m EXCEPT !.ids = m.ids + n]

----------------------------------------------------------------------------
(* JSON.stringify followed by JSON.parse *)

JsonTime(ts) == IF ts.t = "Date" THEN IsoTime(ts.ms) ELSE ts

JsonStamped(arr) == [i \in 1..Len(arr) |-> [arr[i] EXCEPT !.timestamp = JsonTime(arr[i].timestamp)]]

JsonProject(p) ==
  [p EXCEPT !.links = JsonStamped(p.links), !.comments = JsonStamped(p.comments),
            !.activityLog = JsonStamped(p.activityLog)]

JsonColumn(c) == [c EXCEPT !.projects = [i \in 1..Len(c.projects) |-> JsonProject(c.projects[i])]]

JsonBoard(b) == [b EXCEPT !.columns = [i \in 1..Len(b.columns) |-> JsonColumn(b.columns[i])]]

JsonBoards(bs) == [i \in 1..Len(bs) |-> JsonBoard(bs[i])]

----------------------------------------------------------------------------
(* Persistence *)

\* saveData letting the storage exception out of the handler.
SaveDataRaises(m) ==
  LET n == [m EXCEPT !.saves = m.saves + 1] IN
  IF ~m.storageAvailable THEN n
  ELSE IF m.writes
  THEN [n EXCEPT !.blob = [present |-> TRUE, boards |-> JsonBoards(m.boards),
                           currentBoardId |-> m.currentBoardId, lastSaved |-> m.now]]
  ELSE [n EXCEPT !.threw = TRUE, !.failed = m.failed + 1]

saveData(m) ==
  LET n == [m EXCEPT !.saves = m.saves + 1] IN
  IF ~m.storageAvailable THEN [n EXCEPT !.failed = m.failed + 1]
  ELSE IF m.writes
  THEN [n EXCEPT !.blob = [present |-> TRUE, boards |-> JsonBoards(m.boards),
                           currentBoardId |-> m.currentBoardId, lastSaved |-> m.now]]
  ELSE [n EXCEPT !.failed = m.failed + 1]

----------------------------------------------------------------------------
(* Activity log *)

logActivity(m, boardId, columnId, projectId, action, description, oldValue, newValue) ==
  LET bi == FindIndexById(m.boards, boardId) IN
  IF bi = 0 THEN m ELSE
  LET ci == FindIndexById(m.boards[bi].columns, columnId) IN
  IF ci = 0 THEN m ELSE
  LET pi == FindIndexById(m.boards[bi].columns[ci].projects, projectId) IN
  IF pi = 0 THEN m ELSE
  LET activity == [id |-> generateId(m), action |-> action, description |-> description,
                   timestamp |-> NumberTime(m.now), oldValue |-> oldValue,
                   newValue |-> newValue]
  IN [AfterIds(m, 1) EXCEPT
        !.boards[bi].columns[ci].projects[pi].activityLog = <<activity>> \o @]

----------------------------------------------------------------------------
(* Boards *)

\* String.prototype.toUpperCase, on the letters the model uses.
UpperLetter(c) ==
  CASE c = "proj" -> "PROJ"
    [] c = "p" -> "P"
    [] c = "q" -> "Q"
    [] OTHER -> c

toUpperCase(s) == [i \in 1..Len(s) |-> UpperLetter(s[i])]

\* createBoard leaving the board that was current as the current one.
CreateBoardKeepsCurrent(m, name, projectIdPrefix, description) ==
  LET board == [id |-> m.ids, name |-> name,
                projectIdPrefix |-> toUpperCase(projectIdPrefix),
                description |-> description,
                columns |-> << [id |-> m.ids + 1, title |-> <<"To Do">>, order |-> 0,
                                projects |-> <<>>],
                               [id |-> m.ids + 2, title |-> <<"In Progress">>, order |-> 1,
                                projects |-> <<>>],
                               [id |-> m.ids + 3, title |-> <<"Done">>, order |-> 2,
                                projects |-> <<>>] >>]
  IN saveData([AfterIds(m, 4) EXCEPT !.boards = Append(@, board)])

createBoard(m, name, projectIdPrefix, description) ==
  LET board == [id |-> m.ids, name |-> name,
                projectIdPrefix |-> toUpperCase(projectIdPrefix),
                description |-> description,
                columns |-> << [id |-> m.ids + 1, title |-> <<"To Do">>, order |-> 0,
                                projects |-> <<>>],
                               [id |-> m.ids + 2, title |-> <<"In Progress">>, order |-> 1,
                                projects |-> <<>>],
                               [id |-> m.ids + 3, title |-> <<"Done">>, order |-> 2,
                                projects |-> <<>>] >>]
      m1 == [AfterIds(m, 4) EXCEPT !.boards = Append(m.boards, board),
                                   !.currentBoardId = board.id]
  IN saveData(m1)

----------------------------------------------------------------------------
(* Columns *)

createColumn(m, boardId, title) ==
  LET bi == FindIndexById(m.boards, boardId) IN
  IF bi = 0 THEN m ELSE
  LET column == [id |-> generateId(m), title |-> title,
                 order |-> Len(m.boards[bi].columns), projects |-> <<>>]
  IN saveData([AfterIds(m, 1) EXCEPT !.boards[bi].columns = Append(@, column)])

\* board.columns.forEach((col, idx) => col.order = idx).  Assigning to a property
\* of undefined throws: the elements before an undefined one are renumbered, the
\* rest are not.
FirstUndefined(columns) ==
  IF \E i \in 1..Len(columns) : columns[i] = Undefined
  THEN CHOOSE i \in 1..Len(columns) :
         columns[i] = Undefined /\ \A j \in 1..(i - 1) : columns[j] # Undefined
  ELSE Len(columns) + 1

Renumber(columns) ==
  [i \in 1..Len(columns) |->
     IF i < FirstUndefined(columns) THEN [columns[i] EXCEPT !.order = i - 1] ELSE columns[i]]

DeleteColumnNoRenumber(m, boardId, columnId) ==
  LET bi == FindIndexById(m.boards, boardId) IN
  IF bi = 0 THEN m ELSE
  LET columnIndex == FindIndexById(m.boards[bi].columns, columnId) IN
  IF columnIndex = 0 THEN m
  ELSE saveData([m EXCEPT !.boards[bi].columns = SpliceRemove(@, columnIndex - 1)])

\* deleteColumn that hands the column's projects to the first column left.
DeleteColumnKeepsProjects(m, boardId, columnId) ==
  LET bi == FindIndexById(m.boards, boardId) IN
  IF bi = 0 THEN m ELSE
  LET columnIndex == FindIndexById(m.boards[bi].columns, columnId) IN
  IF columnIndex = 0 THEN m ELSE
  LET kept == Renumber(SpliceRemove(m.boards[bi].columns, columnIndex - 1))
      orphans == m.boards[bi].columns[columnIndex].projects
  IN saveData([m EXCEPT !.boards[bi].columns =
                 IF kept = <<>> THEN kept
                 ELSE [kept EXCEPT ![1].projects = @ \o orphans]])

deleteColumn(m, boardId, columnId) ==
  LET bi == FindIndexById(m.boards, boardId) IN
  IF bi = 0 THEN m ELSE
  LET columnIndex == FindIndexById(m.boards[bi].columns, columnId) IN
  IF columnIndex = 0 THEN m
  ELSE saveData([m EXCEPT !.boards[bi].columns = Renumber(SpliceRemove(@, columnIndex - 1))])

\* reorderColumns that exchanges the columns at the two indices.
ReorderColumnsSwaps(m, boardId, fromIndex, toIndex) ==
  LET bi == FindIndexById(m.boards, boardId) IN
  IF bi = 0 THEN m ELSE
  LET columns == m.boards[bi].columns IN
  IF fromIndex \notin 0..(Len(columns) - 1) \/ toIndex \notin 0..(Len(columns) - 1) THEN m
  ELSE saveData([m EXCEPT !.boards[bi].columns =
                   Renumber([columns EXCEPT ![fromIndex + 1] = columns[toIndex + 1],
                                            ![toIndex + 1] = columns[fromIndex + 1]])])

reorderColumns(m, boardId, fromIndex, toIndex) ==
  LET bi == FindIndexById(m.boards, boardId) IN
  IF bi = 0 THEN m ELSE
  LET columns == m.boards[bi].columns
      s == SpliceStart(columns, fromIndex)
      removed == IF s >= Len(columns) THEN Undefined ELSE columns[s + 1]
      spliced == SpliceInsert(SpliceRemove(columns, fromIndex), toIndex, removed)
      m1 == [m EXCEPT !.boards[bi].columns = Renumber(spliced)]
  IN IF FirstUndefined(spliced) <= Len(spliced)
     THEN [m1 EXCEPT !.threw = TRUE]
     ELSE saveData(m1)

----------------------------------------------------------------------------
(* Numbers of display ids.                                                 *)
(*                                                                         *)
(* A project number is a JavaScript number, an IEEE-754 double.  It is     *)
(* modelled as a decimal numeral: a sequence of digits 0..9, most          *)
(* significant first, without leading zeros (zero is <<0>>), because the   *)
(* interesting values are beyond a 32-bit integer.  The integers up to     *)
(* 2^53 are doubles; from 2^53 up to 2^54 only the even ones are, and a    *)
(* value between two doubles rounds to the one with the even significand,  *)
(* which is the multiple of 4.  The model's display ids hold at most 16    *)
(* digits, so every number stays below 2^54.                               *)

DigitChars == {"0", "1", "2", "3", "4", "5", "6", "7", "8", "9"}

DigitValue(c) ==
  CASE c = "0" -> 0 [] c = "1" -> 1 [] c = "2" -> 2 [] c = "3" -> 3 [] c = "4" -> 4
    [] c = "5" -> 5 [] c = "6" -> 6 [] c = "7" -> 7 [] c = "8" -> 8 [] c = "9" -> 9

DigitChar(d) == <<"0", "1", "2", "3", "4", "5", "6", "7", "8", "9">>[d + 1]

RECURSIVE StripLeadingZeros(_)
StripLeadingZeros(n) ==
  IF Len(n) > 1 /\ n[1] = 0 THEN StripLeadingZeros(Tail(n)) ELSE n

RECURSIVE NumSucc(_)
NumSucc(n) ==
  IF n = <<>> THEN <<1>>
  ELSE IF n[Len(n)] < 9 THEN [n EXCEPT ![Len(n)] = @ + 1]
  ELSE Append(NumSucc(SubSeq(n, 1, Len(n) - 1)), 0)

RECURSIVE NumPred(_)
\* For n >= 1.
NumPred(n) ==
  IF n[Len(n)] > 0 THEN [n EXCEPT ![Len(n)] = @ - 1]
  ELSE StripLeadingZeros(Append(NumPred(SubSeq(n, 1, Len(n) - 1)), 9))

RECURSIVE NumLess(_, _)
\* a < b, for numerals without leading zeros.
NumLess(a, b) ==
  IF Len(a) # Len(b) THEN Len(a) < Len(b)
  ELSE IF a = <<>> THEN FALSE
  ELSE IF a[1] # b[1] THEN a[1] < b[1]
  ELSE NumLess(Tail(a), Tail(b))

\* 2^53 = 9007199254740992
TwoTo53 == <<9, 0, 0, 7, 1, 9, 9, 2, 5, 4, 7, 4, 0, 9, 9, 2>>

NumMod4(n) ==
  IF Len(n) = 1 THEN n[1] % 4 ELSE (10 * n[Len(n) - 1] + n[Len(n)]) % 4

\* The double nearest to the integer n (round half to even), for n < 2^54.
ToDouble(n) ==
  IF NumLess(n, TwoTo53) \/ n[Len(n)] % 2 = 0 THEN n
  ELSE IF NumMod4(n) = 3 THEN NumSucc(n) ELSE NumPred(n)

\* parseInt on a string of decimal digits.
parseInt(digits) ==
  ToDouble(StripLeadingZeros([i \in 1..Len(digits) |-> DigitValue(digits[i])]))

\* The number n + 1.
PlusOne(n) == ToDouble(NumSucc(n))

\* String(n), for an integer n < 10^21.
String(n) == [i \in 1..Len(n) |-> DigitChar(n[i])]

\* str.padStart(3, '0')
padStart3(str) ==
  IF Len(str) >= 3 THEN str
  ELSE [i \in 1..(3 - Len(str)) |-> "0"] \o str

\* The group (\d+) of str.match(/-?(\d+)$/): the longest run of digits that ends
\* the string; empty when the match fails.
TrailingDigits(str) ==
  LET k == CHOOSE k \in 0..Len(str) :
             /\ \A i \in (Len(str) - k + 1)..Len(str) : str[i] \in DigitChars
             /\ k = Len(str) \/ str[Len(str) - k] \notin DigitChars
  IN SubSeq(str, Len(str) - k + 1, Len(str))

----------------------------------------------------------------------------
(* Projects *)

\* The projects of a board, column after column.
RECURSIVE BoardProjects(_)
BoardProjects(columns) ==
  IF columns = <<>> THEN <<>> ELSE Head(columns).projects \o BoardProjects(Tail(columns))

RECURSIVE MaxNumber(_, _)
\* The forEach loops of getNextProjectNumber, started with maxNumber.
MaxNumber(projects, maxNumber) ==
  IF projects = <<>> THEN maxNumber
  ELSE LET digits == TrailingDigits(Head(projects).projectId)
           num == parseInt(digits)
       IN MaxNumber(Tail(projects),
                    IF digits # <<>> /\ NumLess(maxNumber, num) THEN num ELSE maxNumber)

\* getNextProjectNumber that counts the board's projects instead of scanning
\* their display ids.
NextNumberByCount(m, boardId) ==
  LET bi == FindIndexById(m.boards, boardId) IN
  IF bi = 0 THEN <<1>>
  ELSE PlusOne(StripLeadingZeros(
         [i \in 1..1 |-> Len(BoardProjects(m.boards[bi].columns))]))

\* getNextProjectNumber that looks at the board's first column only.
NextNumberOfFirstColumn(m, boardId) ==
  LET bi == FindIndexById(m.boards, boardId) IN
  IF bi = 0 \/ m.boards[bi].columns = <<>> THEN <<1>>
  ELSE PlusOne(MaxNumber(m.boards[bi].columns[1].projects, <<0>>))

getNextProjectNumber(m, boardId) ==
  LET bi == FindIndexById(m.boards, boardId) IN
  IF bi = 0 THEN <<1>>
  ELSE PlusOne(MaxNumber(BoardProjects(m.boards[bi].columns), <<0>>))

openProjectModal(m, boardId, columnId, projectId) ==
  LET bi == FindIndexById(m.boards, boardId) IN
  IF bi = 0 THEN m ELSE
  LET ci == FindIndexById(m.boards[bi].columns, columnId) IN
  IF ci = 0 THEN m ELSE
  LET pi == FindIndexById(m.boards[bi].columns[ci].projects, projectId) IN
  IF pi = 0 THEN m
  \* the new context object has no linkId and no commentId
  ELSE [m EXCEPT !.currentContext = [boardId |-> boardId, columnId |-> columnId,
                                     projectId |-> projectId]]

\* createProject persisting before it logs the creation.
CreateProjectSavesBeforeLog(m, boardId, columnId) ==
  LET bi == FindIndexById(m.boards, boardId) IN
  IF bi = 0 THEN m ELSE
  LET ci == FindIndexById(m.boards[bi].columns, columnId) IN
  IF ci = 0 THEN m ELSE
  LET projectNumber == getNextProjectNumber(m, boardId)
      project == [id |-> generateId(m),
                  projectId |-> m.boards[bi].projectIdPrefix \o <<"-">>
                                  \o padStart3(String(projectNumber)),
                  projectName |-> <<"New Project">>,
                  description |-> <<>>,
                  links |-> <<>>, comments |-> <<>>, activityLog |-> <<>>]
      m1 == [AfterIds(m, 1) EXCEPT !.boards[bi].columns[ci].projects = Append(@, project)]
      m2 == logActivity(saveData(m1), boardId, columnId, project.id, "created",
                        <<"Project created">>, NoValue, NoValue)
  IN openProjectModal(m2, boardId, columnId, project.id)

createProject(m, boardId, columnId) ==
  LET bi == FindIndexById(m.boards, boardId) IN
  IF bi = 0 THEN m ELSE
  LET ci == FindIndexById(m.boards[bi].columns, columnId) IN
  IF ci = 0 THEN m ELSE
  LET projectNumber == getNextProjectNumber(m, boardId)
      project == [id |-> generateId(m),
                  projectId |-> m.boards[bi].projectIdPrefix \o <<"-">>
                                  \o padStart3(String(projectNumber)),
                  projectName |-> <<"New Project">>,
                  description |-> <<>>,
                  links |-> <<>>, comments |-> <<>>, activityLog |-> <<>>]
      m1 == [AfterIds(m, 1) EXCEPT !.boards[bi].columns[ci].projects = Append(@, project)]
      m2 == logActivity(m1, boardId, columnId, project.id, "created",
                        <<"Project created">>, NoValue, NoValue)
  IN openProjectModal(saveData(m2), boardId, columnId, project.id)

\* updates is a record holding some of the fields of a project.
Has(updates, f) == f \in DOMAIN updates

\* Object.assign(target, updates)
ObjectAssign(target, updates) ==
  [f \in DOMAIN target \cup DOMAIN updates |->
     IF f \in DOMAIN updates THEN updates[f] ELSE target[f]]

\* The first test of updateProject: updates.projectName is truthy and differs.
NameChanged(updates, project) ==
  /\ Has(updates, "projectName")
  /\ updates.projectName # <<>>
  /\ updates.projectName # project.projectName

IdChanged(updates, project) ==
  /\ Has(updates, "projectId")
  /\ updates.projectId # <<>>
  /\ updates.projectId # project.projectId

DescriptionChanged(updates, project) ==
  /\ Has(updates, "description")
  /\ updates.description # project.description

updateProject(m, boardId, columnId, projectId, updates) ==
  LET bi == FindIndexById(m.boards, boardId) IN
  IF bi = 0 THEN m ELSE
  LET ci == FindIndexById(m.boards[bi].columns, columnId) IN
  IF ci = 0 THEN m ELSE
  LET pi == FindIndexById(m.boards[bi].columns[ci].projects, projectId) IN
  IF pi = 0 THEN m ELSE
  LET project == m.boards[bi].columns[ci].projects[pi]
      m1 == IF NameChanged(updates, project)
            THEN logActivity(m, boardId, columnId, projectId, "name_changed",
                             <<"Project name changed">>,
                             StrValue(project.projectName), StrValue(updates.projectName))
            ELSE m
      m2 == IF IdChanged(updates, project)
            THEN logActivity(m1, boardId, columnId, projectId, "id_changed",
                             <<"Project ID changed">>,
                             StrValue(project.projectId), StrValue(updates.projectId))
            ELSE m1
      m3 == IF DescriptionChanged(updates, project)
            THEN logActivity(m2, boardId, columnId, projectId, "description_updated",
                             <<"Description updated">>,
                             StrValue(project.description), StrValue(updates.description))
            ELSE m2
  IN saveData([m3 EXCEPT !.boards[bi].columns[ci].projects[pi] = ObjectAssign(@, updates)])

\* A deleteProject that empties the column instead of removing one project.
DeleteProjectClearsColumn(m, boardId, columnId, projectId) ==
  LET bi == FindIndexById(m.boards, boardId) IN
  IF bi = 0 THEN m ELSE
  LET ci == FindIndexById(m.boards[bi].columns, columnId) IN
  IF ci = 0 THEN m
  ELSE saveData([m EXCEPT !.boards[bi].columns[ci].projects = <<>>])

deleteProject(m, boardId, columnId, projectId) ==
  LET bi == FindIndexById(m.boards, boardId) IN
  IF bi = 0 THEN m ELSE
  LET ci == FindIndexById(m.boards[bi].columns, columnId) IN
  IF ci = 0 THEN m ELSE
  LET projectIndex == FindIndexById(m.boards[bi].columns[ci].projects, projectId) IN
  IF projectIndex = 0 THEN m
  ELSE saveData([m EXCEPT !.boards[bi].columns[ci].projects = SpliceRemove(@, projectIndex - 1)])

\* The activity a cross-column move logs.
MovedDescription(fromTitle, toTitle) ==
  <<"Moved from '">> \o fromTitle \o <<"' to '">> \o toTitle \o <<"'">>

\* moveProject logging the move against the source column, where the project no
\* longer is.
MoveProjectLogsAtSource(m, boardId, fromColumnId, toColumnId, projectId, toIndex) ==
  LET bi == FindIndexById(m.boards, boardId) IN
  IF bi = 0 THEN m ELSE
  LET fi == FindIndexById(m.boards[bi].columns, fromColumnId)
      ti == FindIndexById(m.boards[bi].columns, toColumnId)
  IN
  IF fi = 0 \/ ti = 0 THEN m ELSE
  LET projectIndex == FindIndexById(m.boards[bi].columns[fi].projects, projectId) IN
  IF projectIndex = 0 THEN m ELSE
  LET project == m.boards[bi].columns[fi].projects[projectIndex]
      m1 == [m EXCEPT !.boards[bi].columns[fi].projects = SpliceRemove(@, projectIndex - 1)]
      m2 == [m1 EXCEPT !.boards[bi].columns[ti].projects = SpliceInsert(@, toIndex, project)]
  IN IF fromColumnId # toColumnId
     THEN saveData(logActivity(m2, boardId, fromColumnId, projectId, "moved",
                               MovedDescription(m.boards[bi].columns[fi].title,
                                                m.boards[bi].columns[ti].title),
                               NoValue, NoValue))
     ELSE saveData(m2)

\* moveProject inserting before it removes: in a same-column move the indices
\* after the project's old position are off by one.
MoveProjectInsertsFirst(m, boardId, fromColumnId, toColumnId, projectId, toIndex) ==
  LET bi == FindIndexById(m.boards, boardId) IN
  IF bi = 0 THEN m ELSE
  LET fi == FindIndexById(m.boards[bi].columns, fromColumnId)
      ti == FindIndexById(m.boards[bi].columns, toColumnId)
  IN
  IF fi = 0 \/ ti = 0 THEN m ELSE
  LET projectIndex == FindIndexById(m.boards[bi].columns[fi].projects, projectId) IN
  IF projectIndex = 0 THEN m ELSE
  LET project == m.boards[bi].columns[fi].projects[projectIndex]
      m1 == [m EXCEPT !.boards[bi].columns[ti].projects = SpliceInsert(@, toIndex, project)]
      at == IF fi = ti /\ SpliceStart(m.boards[bi].columns[ti].projects, toIndex) < projectIndex
            THEN projectIndex ELSE projectIndex - 1
      m2 == [m1 EXCEPT !.boards[bi].columns[fi].projects = SpliceRemove(@, at)]
  IN IF fromColumnId # toColumnId
     THEN saveData(logActivity(m2, boardId, toColumnId, projectId, "moved",
                               MovedDescription(m.boards[bi].columns[fi].title,
                                                m.boards[bi].columns[ti].title),
                               NoValue, NoValue))
     ELSE saveData(m2)

moveProject(m, boardId, fromColumnId, toColumnId, projectId, toIndex) ==
  LET bi == FindIndexById(m.boards, boardId) IN
  IF bi = 0 THEN m ELSE
  LET fi == FindIndexById(m.boards[bi].columns, fromColumnId)
      ti == FindIndexById(m.boards[bi].columns, toColumnId)
  IN
  IF fi = 0 \/ ti = 0 THEN m ELSE
  LET projectIndex == FindIndexById(m.boards[bi].columns[fi].projects, projectId) IN
  IF projectIndex = 0 THEN m ELSE
  LET project == m.boards[bi].columns[fi].projects[projectIndex]
      m1 == [m EXCEPT !.boards[bi].columns[fi].projects = SpliceRemove(@, projectIndex - 1)]
      m2 == [m1 EXCEPT !.boards[bi].columns[ti].projects = SpliceInsert(@, toIndex, project)]
  IN IF fromColumnId # toColumnId
     THEN saveData(logActivity(m2, boardId, toColumnId, projectId, "moved",
                               MovedDescription(m.boards[bi].columns[fi].title,
                                                m.boards[bi].columns[ti].title),
                               NoValue, NoValue))
     ELSE saveData(m2)

----------------------------------------------------------------------------
(* Links and comments *)

addLink(m, boardId, columnId, projectId, url, title) ==
  LET bi == FindIndexById(m.boards, boardId) IN
  IF bi = 0 THEN m ELSE
  LET ci == FindIndexById(m.boards[bi].columns, columnId) IN
  IF ci = 0 THEN m ELSE
  LET pi == FindIndexById(m.boards[bi].columns[ci].projects, projectId) IN
  IF pi = 0 THEN m ELSE
  LET link == [id |-> generateId(m), url |-> url, title |-> title,
               timestamp |-> DateTime(m.now)]
      m1 == [AfterIds(m, 1) EXCEPT !.boards[bi].columns[ci].projects[pi].links =
                                     Append(@, link)]
  IN saveData(logActivity(m1, boardId, columnId, projectId, "link_added",
                          <<"Link added">>, NoValue, LinkValue(title, url)))

addComment(m, boardId, columnId, projectId, text) ==
  LET bi == FindIndexById(m.boards, boardId) IN
  IF bi = 0 THEN m ELSE
  LET ci == FindIndexById(m.boards[bi].columns, columnId) IN
  IF ci = 0 THEN m ELSE
  LET pi == FindIndexById(m.boards[bi].columns[ci].projects, projectId) IN
  IF pi = 0 THEN m ELSE
  LET comment == [id |-> generateId(m), text |-> text, timestamp |-> DateTime(m.now)]
      m1 == [AfterIds(m, 1) EXCEPT !.boards[bi].columns[ci].projects[pi].comments =
                                     Append(@, comment)]
  IN saveData(logActivity(m1, boardId, columnId, projectId, "comment_added",
                          <<"Comment added">>, NoValue, StrValue(text)))

----------------------------------------------------------------------------
(* The board selector *)

\* The change handler of boardSelector: value is a board's id, or the empty
\* string of the "Select Board" option.
selectBoard(m, value) == saveData([m EXCEPT !.currentBoardId = value])

----------------------------------------------------------------------------
(* JSON export and import *)

\* A document is what JSON.parse makes of a file's text:
\*   [t |-> "invalid"]   the text does not parse (JSON.parse throws)
\*   [t |-> "null"], [t |-> "number"], [t |-> "string"], [t |-> "array"]
\*                       a top-level value that is no object
\*   [t |-> "object", boards, currentBoardId, projectCount]
\*                       an object; boards is [t |-> "absent"], [t |-> "null"],
\*                       [t |-> "string"] (not empty), [t |-> "object"] or
\*                       [t |-> "array", items |-> the boards]; currentBoardId is
\*                       UndefinedId when the key is absent; projectCount is 0
\*                       when the key is absent.

\* state.boards.reduce(... c.projects.length ...)
RECURSIVE CountProjects(_)
CountProjects(bs) ==
  IF bs = <<>> THEN 0 ELSE Len(BoardProjects(Head(bs).columns)) + CountProjects(Tail(bs))

\* dataToExport of exportToJSON, as JSON.parse reads the downloaded file.
Snapshot(m) ==
  [t |-> "object",
   boards |-> [t |-> "array", items |-> JsonBoards(m.boards)],
   currentBoardId |-> m.currentBoardId,
   exportedAt |-> m.now,
   version |-> "1.0",
   boardCount |-> Len(m.boards),
   projectCount |-> CountProjects(m.boards)]

\* exportToJSON: the file downloaded (m.file) and the backup time noted in storage.
exportToJSON(m) ==
  IF m.boards = <<>> THEN m
  ELSE [m EXCEPT !.file = [present |-> TRUE, doc |-> Snapshot(m),
                           boards |-> m.boards, currentBoardId |-> m.currentBoardId],
                 !.lastBackupTime = IF m.storageAvailable /\ m.writes THEN m.now ELSE @]

\* importFromJSON that takes any truthy boards value for the list of boards.
ImportWithoutArrayTest(m, doc, answer) ==
  IF doc.t = "invalid" \/ doc.t = "null" THEN m
  ELSE IF doc.t # "object" \/ doc.boards.t \in {"absent", "null"} THEN m
  ELSE IF doc.projectCount = 0 /\ doc.boards.t # "array" THEN m
  ELSE
    LET items == IF doc.boards.t = "array" THEN doc.boards.items ELSE <<>> IN
    IF m.boards # <<>> /\ ~answer THEN [m EXCEPT !.asked = TRUE]
    ELSE LET m1 == saveData([m EXCEPT !.asked = (m.boards # <<>>), !.boards = items,
                                      !.currentBoardId = doc.currentBoardId])
         IN IF items # <<>> /\ FindIndexById(items, m1.currentBoardId) = 0
            THEN [m1 EXCEPT !.currentBoardId = items[1].id]
            ELSE m1

\* importFromJSON that replaces the data without asking.
ImportWithoutConfirm(m, doc, answer) ==
  IF doc.t = "invalid" \/ doc.t = "null" THEN m
  ELSE IF doc.t # "object" \/ doc.boards.t # "array" THEN m
  ELSE
    LET items == doc.boards.items
        m1 == saveData([m EXCEPT !.boards = items, !.currentBoardId = doc.currentBoardId])
    IN IF items # <<>> /\ FindIndexById(items, m1.currentBoardId) = 0
       THEN [m1 EXCEPT !.currentBoardId = items[1].id]
       ELSE m1

\* importFromJSON that keeps the snapshot's currentBoardId as it is.
ImportWithoutFallback(m, doc, answer) ==
  IF doc.t = "invalid" \/ doc.t = "null" THEN m
  ELSE IF doc.t # "object" \/ doc.boards.t # "array" THEN m
  ELSE
    LET items == doc.boards.items IN
    IF m.boards # <<>> /\ ~answer THEN [m EXCEPT !.asked = TRUE]
    ELSE saveData([m EXCEPT !.asked = (m.boards # <<>>), !.boards = items,
                            !.currentBoardId = doc.currentBoardId])

\* reader.onload of importFromJSON, for the document the chosen file holds;
\* answer is what the user answers if confirm() asks.
importFromJSON(m, doc, answer) ==
  \* JSON.parse throws, or reading .boards of null throws: caught, nothing done
  IF doc.t = "invalid" \/ doc.t = "null" THEN m
  \* !importedData.boards || !Array.isArray(importedData.boards)
  ELSE IF doc.t # "object" \/ doc.boards.t # "array" THEN m
  ELSE
    LET items == doc.boards.items IN
    IF m.boards # <<>> /\ ~answer THEN [m EXCEPT !.asked = TRUE]
    ELSE LET m1 == saveData([m EXCEPT !.asked = (m.boards # <<>>), !.boards = items,
                                      !.currentBoardId = doc.currentBoardId])
         IN IF items # <<>> /\ FindIndexById(items, m1.currentBoardId) = 0
            THEN [m1 EXCEPT !.currentBoardId = items[1].id]
            ELSE m1

----------------------------------------------------------------------------
(* Boards and columns: update, delete, clear *)

updateBoard(m, boardId, updates) ==
  LET bi == FindIndexById(m.boards, boardId) IN
  IF bi = 0 THEN m
  ELSE saveData([m EXCEPT !.boards[bi] = ObjectAssign(@, updates)])

\* deleteBoard that leaves currentBoardId as it is.
DeleteBoardKeepsCurrent(m, boardId) ==
  LET index == FindIndexById(m.boards, boardId) IN
  IF index = 0 THEN m
  ELSE saveData([m EXCEPT !.boards = SpliceRemove(@, index - 1)])

deleteBoard(m, boardId) ==
  LET index == FindIndexById(m.boards, boardId) IN
  IF index = 0 THEN m ELSE
  LET rest == SpliceRemove(m.boards, index - 1)
      m1 == [m EXCEPT !.boards = rest]
      m2 == IF m.currentBoardId = boardId
            THEN [m1 EXCEPT !.currentBoardId = IF Len(rest) > 0 THEN rest[1].id ELSE Null]
            ELSE m1
  IN saveData(m2)

updateColumn(m, boardId, columnId, updates) ==
  LET bi == FindIndexById(m.boards, boardId) IN
  IF bi = 0 THEN m ELSE
  LET ci == FindIndexById(m.boards[bi].columns, columnId) IN
  IF ci = 0 THEN m
  ELSE saveData([m EXCEPT !.boards[bi].columns[ci] = ObjectAssign(@, updates)])

\* clearAllData; first and second are the answers to its two confirm() dialogs.
clearAllData(m, first, second) ==
  IF m.boards = <<>> THEN m
  ELSE IF first /\ second
  THEN saveData([m EXCEPT !.asked = TRUE, !.boards = <<>>, !.currentBoardId = Null])
  ELSE [m EXCEPT !.asked = TRUE]

----------------------------------------------------------------------------
(* Links and comments: update, delete *)

updateLink(m, boardId, columnId, projectId, linkId, url, title) ==
  LET bi == FindIndexById(m.boards, boardId) IN
  IF bi = 0 THEN m ELSE
  LET ci == FindIndexById(m.boards[bi].columns, columnId) IN
  IF ci = 0 THEN m ELSE
  LET pi == FindIndexById(m.boards[bi].columns[ci].projects, projectId) IN
  IF pi = 0 THEN m ELSE
  LET li == FindIndexById(m.boards[bi].columns[ci].projects[pi].links, linkId) IN
  IF li = 0 THEN m ELSE
  LET link == m.boards[bi].columns[ci].projects[pi].links[li]
      oldTitle == link.title
      oldUrl == link.url
      m1 == [m EXCEPT !.boards[bi].columns[ci].projects[pi].links[li] =
                        [@ EXCEPT !.url = url, !.title = title,
                                  !.timestamp = DateTime(m.now)]]
      titleChanged == oldTitle # title
      urlChanged == oldUrl # url
      m2 == IF titleChanged /\ urlChanged
            THEN logActivity(m1, boardId, columnId, projectId, "link_updated",
                             <<"Link updated">>,
                             LinkValue(oldTitle, oldUrl), LinkValue(title, url))
            ELSE IF titleChanged
            THEN logActivity(m1, boardId, columnId, projectId, "link_title_updated",
                             <<"Link title updated">>,
                             [t |-> "object", oldTitle |-> oldTitle, url |-> url],
                             [t |-> "object", newTitle |-> title, url |-> url])
            ELSE IF urlChanged
            THEN logActivity(m1, boardId, columnId, projectId, "link_url_updated",
                             <<"Link URL updated">>,
                             [t |-> "object", title |-> title, oldUrl |-> oldUrl],
                             [t |-> "object", title |-> title, newUrl |-> url])
            ELSE m1
  IN saveData(m2)

\* deleteLink that removes the last link of the project.
DeleteLinkRemovesLast(m, boardId, columnId, projectId, linkId) ==
  LET bi == FindIndexById(m.boards, boardId) IN
  IF bi = 0 THEN m ELSE
  LET ci == FindIndexById(m.boards[bi].columns, columnId) IN
  IF ci = 0 THEN m ELSE
  LET pi == FindIndexById(m.boards[bi].columns[ci].projects, projectId) IN
  IF pi = 0 THEN m ELSE
  LET linkIndex == FindIndexById(m.boards[bi].columns[ci].projects[pi].links, linkId) IN
  IF linkIndex = 0 THEN m ELSE
  LET link == m.boards[bi].columns[ci].projects[pi].links[linkIndex]
      m1 == logActivity(m, boardId, columnId, projectId, "link_deleted",
                        <<"Link deleted">>, LinkValue(link.title, link.url), NoValue)
  IN saveData([m1 EXCEPT !.boards[bi].columns[ci].projects[pi].links =
                           SpliceRemove(@, Len(@) - 1)])

deleteLink(m, boardId, columnId, projectId, linkId) ==
  LET bi == FindIndexById(m.boards, boardId) IN
  IF bi = 0 THEN m ELSE
  LET ci == FindIndexById(m.boards[bi].columns, columnId) IN
  IF ci = 0 THEN m ELSE
  LET pi == FindIndexById(m.boards[bi].columns[ci].projects, projectId) IN
  IF pi = 0 THEN m ELSE
  LET linkIndex == FindIndexById(m.boards[bi].columns[ci].projects[pi].links, linkId) IN
  IF linkIndex = 0 THEN m ELSE
  LET link == m.boards[bi].columns[ci].projects[pi].links[linkIndex]
      m1 == logActivity(m, boardId, columnId, projectId, "link_deleted",
                        <<"Link deleted">>, LinkValue(link.title, link.url), NoValue)
  IN saveData([m1 EXCEPT !.boards[bi].columns[ci].projects[pi].links =
                           SpliceRemove(@, linkIndex - 1)])

updateComment(m, boardId, columnId, projectId, commentId, text) ==
  LET bi == FindIndexById(m.boards, boardId) IN
  IF bi = 0 THEN m ELSE
  LET ci == FindIndexById(m.boards[bi].columns, columnId) IN
  IF ci = 0 THEN m ELSE
  LET pi == FindIndexById(m.boards[bi].columns[ci].projects, projectId) IN
  IF pi = 0 THEN m ELSE
  LET ki == FindIndexById(m.boards[bi].columns[ci].projects[pi].comments, commentId) IN
  IF ki = 0 THEN m ELSE
  LET oldText == m.boards[bi].columns[ci].projects[pi].comments[ki].text
      m1 == [m EXCEPT !.boards[bi].columns[ci].projects[pi].comments[ki] =
                        [@ EXCEPT !.text = text, !.timestamp = DateTime(m.now)]]
  IN saveData(logActivity(m1, boardId, columnId, projectId, "comment_updated",
                          <<"Comment edited">>, StrValue(oldText), StrValue(text)))

\* deleteComment persisting whether or not it found the comment.
DeleteCommentSavesAnyway(m, boardId, columnId, projectId, commentId) ==
  LET bi == FindIndexById(m.boards, boardId) IN
  IF bi = 0 THEN m ELSE
  LET ci == FindIndexById(m.boards[bi].columns, columnId) IN
  IF ci = 0 THEN m ELSE
  LET pi == FindIndexById(m.boards[bi].columns[ci].projects, projectId) IN
  IF pi = 0 THEN m ELSE
  LET commentIndex == FindIndexById(m.boards[bi].columns[ci].projects[pi].comments,
                                    commentId) IN
  IF commentIndex = 0 THEN saveData(m) ELSE
  LET commentText == m.boards[bi].columns[ci].projects[pi].comments[commentIndex].text
      m1 == logActivity(m, boardId, columnId, projectId, "comment_deleted",
                        <<"Comment deleted">>, StrValue(commentText), NoValue)
  IN saveData([m1 EXCEPT !.boards[bi].columns[ci].projects[pi].comments =
                           SpliceRemove(@, commentIndex - 1)])

deleteComment(m, boardId, columnId, projectId, commentId) ==
  LET bi == FindIndexById(m.boards, boardId) IN
  IF bi = 0 THEN m ELSE
  LET ci == FindIndexById(m.boards[bi].columns, columnId) IN
  IF ci = 0 THEN m ELSE
  LET pi == FindIndexById(m.boards[bi].columns[ci].projects, projectId) IN
  IF pi = 0 THEN m ELSE
  LET commentIndex == FindIndexById(m.boards[bi].columns[ci].projects[pi].comments,
                                    commentId) IN
  IF commentIndex = 0 THEN m ELSE
  LET commentText == m.boards[bi].columns[ci].projects[pi].comments[commentIndex].text
      m1 == logActivity(m, boardId, columnId, projectId, "comment_deleted",
                        <<"Comment deleted">>, StrValue(commentText), NoValue)
  IN saveData([m1 EXCEPT !.boards[bi].columns[ci].projects[pi].comments =
                           SpliceRemove(@, commentIndex - 1)])

----------------------------------------------------------------------------
(* Drag and drop *)

getCurrentBoard(m) == FindIndexById(m.boards, m.currentBoardId)

handleProjectDragStart(m, projectId, columnId) ==
  [m EXCEPT !.dragState = [@ EXCEPT !.type = "project", !.sourceId = projectId,
                                    !.sourceColumnId = columnId]]

handleProjectDragEnd(m) == [m EXCEPT !.dragState = NoDrag]

\* handleColumnDrop that inserts the project at the head of the target column.
ColumnDropAtHead(m, targetColumnId) ==
  IF m.dragState.type # "project" THEN m
  ELSE moveProject(m, m.currentBoardId, m.dragState.sourceColumnId, targetColumnId,
                   m.dragState.sourceId, 0)

\* The drop listener of a column body.  Reading .columns of no board, or
\* .projects of no column, throws.
handleColumnDrop(m, targetColumnId) ==
  IF m.dragState.type # "project" THEN m ELSE
  LET bi == getCurrentBoard(m) IN
  IF bi = 0 THEN [m EXCEPT !.threw = TRUE] ELSE
  LET ci == FindIndexById(m.boards[bi].columns, targetColumnId) IN
  IF ci = 0 THEN [m EXCEPT !.threw = TRUE]
  ELSE moveProject(m, m.currentBoardId, m.dragState.sourceColumnId, targetColumnId,
                   m.dragState.sourceId, Len(m.boards[bi].columns[ci].projects))

\* handleColumnDragStart that takes every dragstart reaching the column for its own.
ColumnDragStartOfAnyTarget(m, onCard, columnId, columnIndex) ==
  [m EXCEPT !.dragState = [@ EXCEPT !.type = "column", !.sourceId = columnId,
                                    !.sourceIndex = columnIndex]]

\* The dragstart listener of a column.  onCard: e.target is a project card, the
\* event has bubbled up from it.
handleColumnDragStart(m, onCard, columnId, columnIndex) ==
  IF onCard THEN m
  ELSE [m EXCEPT !.dragState = [@ EXCEPT !.type = "column", !.sourceId = columnId,
                                         !.sourceIndex = columnIndex]]

\* handleColumnDragEnd that clears the type alone.
ColumnDragEndKeepsSource(m) == [m EXCEPT !.dragState.type = "null"]

handleColumnDragEnd(m) == [m EXCEPT !.dragState = NoDrag]

\* handleColumnReorderDrop that reorders whatever the two indices are.
ColumnReorderDropAlways(m, targetIndex) ==
  IF m.dragState.type # "column" THEN m
  ELSE reorderColumns(m, m.currentBoardId, m.dragState.sourceIndex, targetIndex)

\* A reorder drop that does not look at the kind of the drag.
ReorderDropOfAnyDrag(m, targetIndex) ==
  IF m.dragState.sourceIndex # targetIndex
  THEN reorderColumns(m, m.currentBoardId, m.dragState.sourceIndex, targetIndex)
  ELSE m

handleColumnReorderDrop(m, targetIndex) ==
  IF m.dragState.type # "column" THEN m
  ELSE IF m.dragState.sourceIndex # targetIndex
  THEN reorderColumns(m, m.currentBoardId, m.dragState.sourceIndex, targetIndex)
  ELSE m

----------------------------------------------------------------------------
(* Startup and auto-save *)

\* loadData: the stored blob replaces the state if storage is available and
\* holds one.
\* What getItem can return besides nothing and a blob that saveData wrote: text
\* that JSON.parse rejects, the text "null", an object without boards, an
\* object whose boards is not an array.
MalformedBlobs ==
  { [present |-> TRUE, kind |-> k] :
      k \in {"unparsable", "null", "no boards", "boards not an array"} }

Loaded(m) == m.storageAvailable /\ m.blob.present /\ m.blob \notin MalformedBlobs

\* loadData that takes the blob's currentBoardId as it is.
LoadDataKeepsId(m) ==
  IF Loaded(m)
  THEN [m EXCEPT !.boards = m.blob.boards, !.currentBoardId = m.blob.currentBoardId]
  ELSE m

loadData(m) ==
  IF Loaded(m)
  THEN [m EXCEPT !.boards = m.blob.boards,
                 !.currentBoardId = IF m.blob.currentBoardId \in {Null, EmptyId, UndefinedId}
                                    THEN Null ELSE m.blob.currentBoardId]
  ELSE m

\* The DOMContentLoaded listener installing the auto-save interval whatever the
\* probe returned.
StartupAlwaysSetsTimer(m, probe) ==
  LET m1 == [m EXCEPT !.storageAvailable = probe, !.started = TRUE]
      m2 == loadData(m1)
      m3 == IF Loaded(m1) /\ Len(m2.boards) > 0
            THEN IF m2.currentBoardId # Null /\ getCurrentBoard(m2) # 0
                 THEN m2
                 ELSE [m2 EXCEPT !.currentBoardId = m2.boards[1].id]
            ELSE m2
  IN [m3 EXCEPT !.timer = TRUE]

\* The DOMContentLoaded listener; probe is what checkStorageAvailability returns.
DOMContentLoaded(m, probe) ==
  LET m1 == [m EXCEPT !.storageAvailable = probe, !.started = TRUE]
      m2 == loadData(m1)
      m3 == IF Loaded(m1) /\ Len(m2.boards) > 0
            THEN IF m2.currentBoardId # Null /\ getCurrentBoard(m2) # 0
                 THEN m2
                 ELSE [m2 EXCEPT !.currentBoardId = m2.boards[1].id]
            ELSE m2
  IN [m3 EXCEPT !.timer = probe]

\* A callback of the auto-save interval that saves whatever the store holds.
AutoSaveAlways(m) == saveData(m)

\* The callback of the auto-save interval.
autoSave(m) == IF Len(m.boards) > 0 THEN saveData(m) ELSE m

----------------------------------------------------------------------------
(* Handlers as actions *)

Ran(op, args) ==
  [op |-> op, args |-> args, boards |-> boards, currentBoardId |-> currentBoardId,
   blob |-> blob, ids |-> ids, now |-> clock, dragState |-> dragState]

\* The handler took the machine to m.
Commit(m, op, args) ==
  /\ boards' = m.boards
  /\ currentBoardId' = m.currentBoardId
  /\ ids' = m.ids
  /\ clock' = clock + 1
  /\ currentContext' = m.currentContext
  /\ blob' = m.blob
  /\ lastBackupTime' = m.lastBackupTime
  /\ file' = m.file
  /\ storageAvailable' = m.storageAvailable
  /\ started' = m.started
  /\ timer' = m.timer
  /\ dragState' = m.dragState
  /\ last' = Ran(op, args) @@ [saves |-> m.saves, failed |-> m.failed, asked |-> m.asked,
                                threw |-> m.threw, writes |-> m.writes]
  /\ UNCHANGED csvVars

BoardIds == {boards[i].id : i \in 1..Len(boards)}
ColumnIds(boardId) ==
  LET bi == FindIndexById(boards, boardId) IN
  IF bi = 0 THEN {} ELSE {boards[bi].columns[i].id : i \in 1..Len(boards[bi].columns)}
ColumnCount(boardId) ==
  LET bi == FindIndexById(boards, boardId) IN
  IF bi = 0 THEN 0 ELSE Len(boards[bi].columns)

createBoardAct(name, prefix, description, w) ==
  Commit(createBoard(Machine(w), name, prefix, description), "createBoard",
         <<name, prefix, description>>)

createColumnAct(boardId, title, w) ==
  Commit(createColumn(Machine(w), boardId, title), "createColumn", <<boardId, title>>)

deleteColumnAct(boardId, columnId, w) ==
  Commit(deleteColumn(Machine(w), boardId, columnId), "deleteColumn", <<boardId, columnId>>)

reorderColumnsAct(boardId, fromIndex, toIndex, w) ==
  Commit(reorderColumns(Machine(w), boardId, fromIndex, toIndex), "reorderColumns",
         <<boardId, fromIndex, toIndex>>)

createProjectAct(boardId, columnId, w) ==
  Commit(createProject(Machine(w), boardId, columnId), "createProject",
         <<boardId, columnId>>)

updateProjectAct(boardId, columnId, projectId, updates, w) ==
  Commit(updateProject(Machine(w), boardId, columnId, projectId, updates), "updateProject",
         <<boardId, columnId, projectId, updates>>)

deleteProjectAct(boardId, columnId, projectId, w) ==
  Commit(deleteProject(Machine(w), boardId, columnId, projectId), "deleteProject",
         <<boardId, columnId, projectId>>)

moveProjectAct(boardId, fromColumnId, toColumnId, projectId, toIndex, w) ==
  Commit(moveProject(Machine(w), boardId, fromColumnId, toColumnId, projectId, toIndex),
         "moveProject", <<boardId, fromColumnId, toColumnId, projectId, toIndex>>)

addLinkAct(boardId, columnId, projectId, url, title, w) ==
  Commit(addLink(Machine(w), boardId, columnId, projectId, url, title), "addLink",
         <<boardId, columnId, projectId, url, title>>)

addCommentAct(boardId, columnId, projectId, text, w) ==
  Commit(addComment(Machine(w), boardId, columnId, projectId, text), "addComment",
         <<boardId, columnId, projectId, text>>)

selectBoardAct(value, w) ==
  Commit(selectBoard(Machine(w), value), "selectBoard", <<value>>)

exportToJSONAct(w) ==
  Commit(exportToJSON(Machine(w)), "exportToJSON", <<>>)

importFromJSONAct(doc, answer, w) ==
  Commit(importFromJSON(Machine(w), doc, answer), "importFromJSON", <<doc, answer>>)

updateBoardAct(boardId, updates, w) ==
  Commit(updateBoard(Machine(w), boardId, updates), "updateBoard", <<boardId, updates>>)

deleteBoardAct(boardId, w) ==
  Commit(deleteBoard(Machine(w), boardId), "deleteBoard", <<boardId>>)

updateColumnAct(boardId, columnId, updates, w) ==
  Commit(updateColumn(Machine(w), boardId, columnId, updates), "updateColumn",
         <<boardId, columnId, updates>>)

clearAllDataAct(first, second, w) ==
  Commit(clearAllData(Machine(w), first, second), "clearAllData", <<first, second>>)

updateLinkAct(boardId, columnId, projectId, linkId, url, title, w) ==
  Commit(updateLink(Machine(w), boardId, columnId, projectId, linkId, url, title),
         "updateLink", <<boardId, columnId, projectId, linkId, url, title>>)

deleteLinkAct(boardId, columnId, projectId, linkId, w) ==
  Commit(deleteLink(Machine(w), boardId, columnId, projectId, linkId), "deleteLink",
         <<boardId, columnId, projectId, linkId>>)

updateCommentAct(boardId, columnId, projectId, commentId, text, w) ==
  Commit(updateComment(Machine(w), boardId, columnId, projectId, commentId, text),
         "updateComment", <<boardId, columnId, projectId, commentId, text>>)

deleteCommentAct(boardId, columnId, projectId, commentId, w) ==
  Commit(deleteComment(Machine(w), boardId, columnId, projectId, commentId),
         "deleteComment", <<boardId, columnId, projectId, commentId>>)

logActivityAct(boardId, columnId, projectId, w) ==
  Commit(logActivity(Machine(w), boardId, columnId, projectId, "created",
                     <<"Project created">>, NoValue, NoValue),
         "logActivity", <<boardId, columnId, projectId>>)

handleProjectDragStartAct(projectId, columnId) ==
  Commit(handleProjectDragStart(Machine(TRUE), projectId, columnId),
         "handleProjectDragStart", <<projectId, columnId>>)

handleProjectDragEndAct ==
  Commit(handleProjectDragEnd(Machine(TRUE)), "handleProjectDragEnd", <<>>)

handleColumnDropAct(targetColumnId, w) ==
  Commit(handleColumnDrop(Machine(w), targetColumnId), "handleColumnDrop",
         <<targetColumnId>>)

handleColumnDragStartAct(columnId, columnIndex) ==
  Commit(handleColumnDragStart(Machine(TRUE), FALSE, columnId, columnIndex),
         "handleColumnDragStart", <<columnId, columnIndex>>)

\* dragstart of a card: the card's listener, then by bubbling the listener of
\* the column the card is in.
cardDragStartAct(projectId, columnId, columnIndex) ==
  Commit(handleColumnDragStart(handleProjectDragStart(Machine(TRUE), projectId, columnId),
                               TRUE, columnId, columnIndex),
         "cardDragStart", <<projectId, columnId, columnIndex>>)

\* dragend of a card: the card's listener, then the column's.
cardDragEndAct ==
  Commit(handleColumnDragEnd(handleProjectDragEnd(Machine(TRUE))), "cardDragEnd", <<>>)

\* drop on a column body: the body's listener, then the column's.
bodyDropAct(columnId, columnIndex, w) ==
  Commit(handleColumnReorderDrop(handleColumnDrop(Machine(w), columnId), columnIndex),
         "bodyDrop", <<columnId, columnIndex>>)

handleColumnDragEndAct ==
  Commit(handleColumnDragEnd(Machine(TRUE)), "handleColumnDragEnd", <<>>)

handleColumnReorderDropAct(targetIndex, w) ==
  Commit(handleColumnReorderDrop(Machine(w), targetIndex), "handleColumnReorderDrop",
         <<targetIndex>>)

DOMContentLoadedAct(probe) ==
  Commit(DOMContentLoaded(Machine(TRUE), probe), "DOMContentLoaded", <<probe>>)

\* The page is opened again: the module-level initialisers run, storage stays.
pageLoadAct ==
  Commit([Machine(TRUE) EXCEPT !.boards = <<>>, !.currentBoardId = Null,
                               !.currentContext = NoContext, !.storageAvailable = FALSE,
                               !.started = FALSE, !.timer = FALSE, !.dragState = NoDrag],
         "pageLoad", <<>>)

autoSaveAct(w) ==
  Commit(autoSave(Machine(w)), "autoSave", <<>>)

----------------------------------------------------------------------------
(* Startup *)

NoOp == [op |-> "startup", args |-> <<>>, boards |-> <<>>, currentBoardId |-> Null,
         blob |-> NoBlob, saves |-> 0, failed |-> 0, asked |-> FALSE, threw |-> FALSE,
             writes |-> TRUE]

Init ==
  /\ boards = <<>>
  /\ currentBoardId = Null
  /\ ids = 1
  /\ clock = 0
  /\ currentContext = NoContext
  /\ storageAvailable \in BOOLEAN
  /\ started = TRUE
  /\ timer = storageAvailable
  /\ dragState = NoDrag
  /\ blob = NoBlob
  /\ lastBackupTime = Null
  /\ file = NoFile
  /\ last = NoOp
  /\ field = <<>>
  /\ escaped = NotEscaped

----------------------------------------------------------------------------
(* Column engine: createBoard, createColumn, deleteColumn, reorderColumns *)

ColCreateBoard ==
  /\ clock < MaxColumnOps
  /\ Len(boards) < MaxBoards
  /\ \E w \in BOOLEAN : createBoardAct(<<"Board">>, <<"proj">>, <<>>, w)

ColCreateColumn ==
  /\ clock < MaxColumnOps
  /\ \E b \in BoardIds : \E w \in BOOLEAN : createColumnAct(b, <<"Review">>, w)

ColDeleteColumn ==
  /\ clock < MaxColumnOps
  /\ \E b \in BoardIds : \E c \in ColumnIds(b) : \E w \in BOOLEAN : deleteColumnAct(b, c, w)

ColReorderColumns ==
  /\ clock < MaxColumnOps
  /\ \E b \in BoardIds : \E f, t \in 0..(ColumnCount(b) - 1) : \E w \in BOOLEAN :
       reorderColumnsAct(b, f, t, w)

NextColumns ==
  \/ ColCreateBoard
  \/ ColCreateColumn
  \/ ColDeleteColumn
  \/ ColReorderColumns

SpecColumns == Init /\ [][NextColumns]_vars

\* C1: every column of every board has an order equal to its index in the
\* board's column sequence.
OrderIsIndex ==
  \A bi \in 1..Len(boards) :
    \A ci \in 1..Len(boards[bi].columns) : boards[bi].columns[ci].order = ci - 1

\* A column was deleted and the remaining ones were reordered away from
\* creation order.
OrderIsIndexWitness ==
  /\ last.op = "reorderColumns"
  /\ \E bi \in 1..Len(boards) :
       LET cs == boards[bi].columns IN
       /\ Len(cs) >= 3
       /\ cs[1].id > cs[2].id
       /\ \E k \in 1..Len(last.boards[bi].columns) :
            last.boards[bi].columns[k].id # cs[k].id
       /\ \E i \in 1..Len(cs) : cs[i].title = <<"Review">>
       /\ Len(cs) < 4
----------------------------------------------------------------------------
(* Lookups on a list of boards *)

Board(bs, boardId) == bs[FindIndexById(bs, boardId)]
Column(bs, boardId, columnId) ==
  LET b == Board(bs, boardId) IN b.columns[FindIndexById(b.columns, columnId)]
HasProject(bs, boardId, columnId, projectId) ==
  /\ FindIndexById(bs, boardId) # 0
  /\ FindIndexById(Board(bs, boardId).columns, columnId) # 0
  /\ FindIndexById(Column(bs, boardId, columnId).projects, projectId) # 0
Project(bs, boardId, columnId, projectId) ==
  LET c == Column(bs, boardId, columnId) IN c.projects[FindIndexById(c.projects, projectId)]
ProjectIdsOf(bs, boardId, columnId) ==
  LET c == Column(bs, boardId, columnId) IN {c.projects[i].id : i \in 1..Len(c.projects)}
ProjectCount(bs, boardId, columnId) == Len(Column(bs, boardId, columnId).projects)

----------------------------------------------------------------------------
(* Moving projects: createBoard, createProject, moveProject, deleteProject *)

MoveCreateBoard ==
  /\ clock < MaxMoveOps
  /\ boards = <<>>
  /\ createBoardAct(<<"B">>, <<"proj">>, <<>>, TRUE)

MoveCreateProject ==
  /\ clock < MaxMoveOps
  /\ \E b \in BoardIds : \E c \in ColumnIds(b) : createProjectAct(b, c, TRUE)

MoveMoveProject ==
  /\ clock < MaxMoveOps
  /\ \E b \in BoardIds : \E f, t \in ColumnIds(b) : \E p \in ProjectIdsOf(boards, b, f) :
       \E i \in 0..(ProjectCount(boards, b, t) + 1) : moveProjectAct(b, f, t, p, i, TRUE)

MoveDeleteProject ==
  /\ clock < MaxMoveOps
  /\ \E b \in BoardIds : \E c \in ColumnIds(b) : \E p \in ProjectIdsOf(boards, b, c) :
       deleteProjectAct(b, c, p, TRUE)

NextMove ==
  \/ MoveCreateBoard
  \/ MoveCreateProject
  \/ MoveMoveProject
  \/ MoveDeleteProject

SpecMove == Init /\ [][NextMove]_vars

\* The arguments of the last moveProject call.
MoveBoard == last.args[1]
MoveFrom == last.args[2]
MoveTo == last.args[3]
MoveProject == last.args[4]
MoveToIndex == last.args[5]

\* The last handler was a moveProject call that found its project in the source.
MovedFound ==
  /\ last.op = "moveProject"
  /\ HasProject(last.boards, MoveBoard, MoveFrom, MoveProject)
  /\ FindIndexById(Board(last.boards, MoveBoard).columns, MoveTo) # 0

\* C3: a moveProject call between two different columns puts exactly one new
\* entry at the head of the project's activity log, with action 'moved' and null
\* oldValue and newValue; a call within one column leaves the log as it was.
MoveLogsOnceAcrossColumns ==
  MovedFound =>
    /\ HasProject(boards, MoveBoard, MoveTo, MoveProject)
    /\ LET before == Project(last.boards, MoveBoard, MoveFrom, MoveProject).activityLog
           after == Project(boards, MoveBoard, MoveTo, MoveProject).activityLog
       IN IF MoveFrom # MoveTo
          THEN /\ Len(after) = Len(before) + 1
               /\ Tail(after) = before
               /\ after[1].action = "moved"
               /\ after[1].oldValue = NoValue
               /\ after[1].newValue = NoValue
          ELSE after = before

\* A project that had moved before moved across columns again.
MoveLogsOnceAcrossColumnsWitness ==
  /\ MovedFound
  /\ MoveFrom # MoveTo
  /\ HasProject(boards, MoveBoard, MoveTo, MoveProject)
  /\ Len(Project(boards, MoveBoard, MoveTo, MoveProject).activityLog) >= 3
  /\ Project(boards, MoveBoard, MoveTo, MoveProject).activityLog[2].action = "moved"

\* The projects of arr other than the one with this id, in order.
RECURSIVE Others(_, _)
Others(arr, id) ==
  IF arr = <<>> THEN <<>>
  ELSE IF Head(arr).id = id THEN Others(Tail(arr), id)
  ELSE <<Head(arr)>> \o Others(Tail(arr), id)

\* The move's index is within the destination as it is once the project has left.
MoveIndexInRange ==
  /\ MovedFound
  /\ MoveToIndex >= 0
  /\ MoveToIndex <= Len(Others(Column(last.boards, MoveBoard, MoveTo).projects, MoveProject))

\* C4: after moveProject with an index in range the project is gone from the
\* source column (when it differs from the destination), sits at toIndex of the
\* destination, and the other projects of both columns are in their old order.
MovePlacesAtIndex ==
  MoveIndexInRange =>
    LET source == Column(boards, MoveBoard, MoveFrom).projects
        destination == Column(boards, MoveBoard, MoveTo).projects
        oldSource == Column(last.boards, MoveBoard, MoveFrom).projects
        oldDestination == Column(last.boards, MoveBoard, MoveTo).projects
    IN /\ MoveFrom # MoveTo => FindIndexById(source, MoveProject) = 0
       /\ Len(destination) > MoveToIndex
       /\ destination[MoveToIndex + 1].id = MoveProject
       /\ Len(destination) = Len(Others(oldDestination, MoveProject)) + 1
       /\ Others(destination, MoveProject) = Others(oldDestination, MoveProject)
       /\ Others(source, MoveProject) = Others(oldSource, MoveProject)

\* A project of a column of three or more moved to a later place in the middle
\* of its own column.
MovePlacesAtIndexWitness ==
  /\ MoveIndexInRange
  /\ MoveFrom = MoveTo
  /\ Len(Column(boards, MoveBoard, MoveTo).projects) >= 3
  /\ MoveToIndex >= 1
  /\ FindIndexById(Column(last.boards, MoveBoard, MoveFrom).projects, MoveProject)
        < MoveToIndex + 1

----------------------------------------------------------------------------
(* Editing projects: createBoard, createProject, updateProject, deleteProject *)

\* The display id "Q-9007199254740992": its number is 2^53.
BigDisplayId ==
  <<"Q", "-", "9", "0", "0", "7", "1", "9", "9", "2", "5", "4", "7", "4", "0", "9", "9", "2">>

\* What the project modal may hand to updateProject.
UpdateInputs ==
  { [projectName |-> <<"Renamed">>],
    [projectName |-> <<"New Project">>],
    [projectName |-> <<>>],
    [description |-> <<"d">>],
    [projectId |-> <<"Q", "-", "0", "4", "1">>],
    [projectId |-> <<"Q", "7">>],
    [projectId |-> <<"Q">>],
    [projectId |-> BigDisplayId],
    [projectId |-> <<"Q", "-", "7">>, projectName |-> <<"Renamed">>, description |-> <<>>] }

UpdCreateBoard ==
  /\ clock < MaxUpdateOps
  /\ boards = <<>>
  /\ createBoardAct(<<"B">>, <<"proj">>, <<>>, TRUE)

UpdCreateProject ==
  /\ clock < MaxUpdateOps
  /\ \E b \in BoardIds : \E c \in ColumnIds(b) : createProjectAct(b, c, TRUE)

UpdUpdateProject ==
  /\ clock < MaxUpdateOps
  /\ \E b \in BoardIds : \E c \in ColumnIds(b) : \E p \in ProjectIdsOf(boards, b, c) :
       \E u \in UpdateInputs : updateProjectAct(b, c, p, u, TRUE)

UpdDeleteProject ==
  /\ clock < MaxUpdateOps
  /\ \E b \in BoardIds : \E c \in ColumnIds(b) : \E p \in ProjectIdsOf(boards, b, c) :
       deleteProjectAct(b, c, p, TRUE)

NextUpdate ==
  \/ UpdCreateBoard
  \/ UpdCreateProject
  \/ UpdUpdateProject
  \/ UpdDeleteProject

SpecUpdate == Init /\ [][NextUpdate]_vars

\* The integer a run of digits denotes.
ExactNumber(digits) == StripLeadingZeros([i \in 1..Len(digits) |-> DigitValue(digits[i])])

\* The last handler was a createProject call that found its board and column.
CreatedFound ==
  /\ last.op = "createProject"
  /\ FindIndexById(last.boards, last.args[1]) # 0
  /\ FindIndexById(Board(last.boards, last.args[1]).columns, last.args[2]) # 0

\* The project the last createProject call made: the last one of its column.
Created ==
  LET ps == Column(boards, last.args[1], last.args[2]).projects IN ps[Len(ps)]

\* C2: the display id createProject produces has a numeric suffix strictly
\* greater than the numeric suffix of every display id that was on the board.
CreatedSuffixAboveAll ==
  CreatedFound =>
    LET before == BoardProjects(Board(last.boards, last.args[1]).columns)
        suffix == TrailingDigits(Created.projectId)
    IN /\ suffix # <<>>
       /\ \A i \in 1..Len(before) :
            TrailingDigits(before[i].projectId) # <<>> =>
              NumLess(ExactNumber(TrailingDigits(before[i].projectId)), ExactNumber(suffix))

\* The last handler was an updateProject call, with a projectName alone, that
\* found its project.
RenamedFound ==
  /\ last.op = "updateProject"
  /\ DOMAIN last.args[4] = {"projectName"}
  /\ HasProject(last.boards, last.args[1], last.args[2], last.args[3])

\* C5: updateProject with projectName = v logs nothing when v is the current
\* name and exactly one 'name_changed' activity, from the old name to v, when v
\* is any other string.
RenameLogsOnce ==
  RenamedFound =>
    LET v == last.args[4].projectName
        old == Project(last.boards, last.args[1], last.args[2], last.args[3])
        new == Project(boards, last.args[1], last.args[2], last.args[3])
    IN IF v = old.projectName
       THEN new.activityLog = old.activityLog
       ELSE /\ Len(new.activityLog) = Len(old.activityLog) + 1
            /\ Tail(new.activityLog) = old.activityLog
            /\ new.activityLog[1].action = "name_changed"
            /\ new.activityLog[1].oldValue = StrValue(old.projectName)
            /\ new.activityLog[1].newValue = StrValue(v)

----------------------------------------------------------------------------
(* Creating projects on fresh boards: createBoard, createProject *)

PrefixInputs == { <<"proj">>, <<"q", "2">> }

NewCreateBoard ==
  /\ clock < MaxCreateOps
  /\ boards = <<>>
  /\ \E prefix \in PrefixInputs : createBoardAct(<<"B">>, prefix, <<>>, TRUE)

\* The "+ Add Project" buttons pressed are those of the board's first and last
\* columns.
NewCreateProject ==
  /\ clock < MaxCreateOps
  /\ \E bi \in 1..Len(boards) : \E ci \in {1, Len(boards[bi].columns)} :
       createProjectAct(boards[bi].id, boards[bi].columns[ci].id, TRUE)

NextCreate ==
  \/ NewCreateBoard
  \/ NewCreateProject

SpecCreate == Init /\ [][NextCreate]_vars

\* The decimal digits of a natural number.
RECURSIVE Decimal(_)
Decimal(i) ==
  IF i < 10 THEN <<DigitChar(i)>> ELSE Decimal(i \div 10) \o <<DigitChar(i % 10)>>

\* i written with at least three digits.
ThreeDigits(i) ==
  IF i < 10 THEN <<"0", "0">> \o Decimal(i)
  ELSE IF i < 100 THEN <<"0">> \o Decimal(i)
  ELSE Decimal(i)

\* How many projects of the list were created no later than the one with this id.
CreationRank(projects, id) ==
  Cardinality({k \in 1..Len(projects) : projects[k].id <= id})

\* C9: on a board that only createProject has touched, the i-th project created
\* has the display id <prefix>-<i, three digits>, and every column holds its
\* projects in creation order.
FreshBoardNumbersInOrder ==
  \A bi \in 1..Len(boards) :
    LET all == BoardProjects(boards[bi].columns) IN
    /\ \A k \in 1..Len(all) :
         all[k].projectId =
           boards[bi].projectIdPrefix \o <<"-">> \o ThreeDigits(CreationRank(all, all[k].id))
    /\ \A ci \in 1..Len(boards[bi].columns) :
         LET ps == boards[bi].columns[ci].projects IN
         \A k \in 1..(Len(ps) - 1) : ps[k].id < ps[k + 1].id

\* Ten projects were created on one board, over more than one column.
FreshBoardNumbersInOrderWitness ==
  /\ last.op = "createProject"
  /\ \E bi \in 1..Len(boards) :
       /\ Len(BoardProjects(boards[bi].columns)) >= 10
       /\ Len(boards[bi].columns[1].projects) >= 2
       /\ Len(boards[bi].columns[3].projects) >= 2

----------------------------------------------------------------------------
(* The CSV field encoder *)

Comma == ","
Quote == "\""
Newline == "\n"

CsvAlphabet == {Comma, Quote, Newline, "a"}

\* str.includes(c)
Includes(str, c) == \E i \in 1..Len(str) : str[i] = c

\* str.replace(/"/g, '""')
RECURSIVE DoubleQuotes(_)
DoubleQuotes(str) ==
  IF str = <<>> THEN <<>>
  ELSE (IF Head(str) = Quote THEN <<Quote, Quote>> ELSE <<Head(str)>>)
         \o DoubleQuotes(Tail(str))

\* escape wrapping a field without doubling its quotes.
EscapeWithoutDoubling(str) ==
  IF str = <<>> THEN <<>>
  ELSE IF Includes(str, Comma) \/ Includes(str, Newline) \/ Includes(str, Quote)
       THEN <<Quote>> \o str \o <<Quote>>
       ELSE str

\* The escape function of exportToGoogleSheets.
escape(str) ==
  IF str = <<>> THEN <<>>
  ELSE LET replaced == DoubleQuotes(str) IN
       IF Includes(replaced, Comma) \/ Includes(replaced, Newline) \/ Includes(replaced, Quote)
       THEN <<Quote>> \o replaced \o <<Quote>>
       ELSE replaced

\* The strings over the alphabet of at most n letters.
StringsUpTo(n) == UNION {[1..k -> CsvAlphabet] : k \in 0..n}

InitCsv ==
  /\ boards = <<>>
  /\ currentBoardId = Null
  /\ ids = 1
  /\ clock = 0
  /\ currentContext = NoContext
  /\ storageAvailable \in BOOLEAN
  /\ started = TRUE
  /\ timer = storageAvailable
  /\ dragState = NoDrag
  /\ blob = NoBlob
  /\ lastBackupTime = Null
  /\ file = NoFile
  /\ last = NoOp
  /\ field \in StringsUpTo(MaxFieldLen)
  /\ escaped = NotEscaped

CsvEscape ==
  /\ ~escaped.done
  /\ escaped' = [done |-> TRUE, out |-> escape(field)]
  /\ UNCHANGED <<boards, currentBoardId, ids, clock, currentContext, storageAvailable,
                 started, timer, dragState, blob, lastBackupTime, file, last, field>>

NextCsv ==
  \/ CsvEscape

SpecCsv == InitCsv /\ [][NextCsv]_vars

\* How many quotes a string holds.
RECURSIVE QuoteCount(_)
QuoteCount(str) ==
  IF str = <<>> THEN 0
  ELSE (IF Head(str) = Quote THEN 1 ELSE 0) + QuoteCount(Tail(str))

\* out is str with every quote doubled: each letter of str appears in out, in
\* order, a quote as two quotes.
IsDoubled(str, out) ==
  /\ Len(out) = Len(str) + QuoteCount(str)
  /\ \A i \in 1..Len(str) :
       LET at == i + QuoteCount(SubSeq(str, 1, i - 1)) IN
       /\ out[at] = str[i]
       /\ str[i] = Quote => out[at + 1] = Quote

\* C10: a field holding a comma, a quote or a newline is encoded as the field
\* with every quote doubled, inside one pair of quotes; any other field is
\* encoded as itself.
EscapeEncodesField ==
  escaped.done =>
    IF \E i \in 1..Len(field) : field[i] \in {Comma, Quote, Newline}
    THEN /\ Len(escaped.out) >= 2
         /\ escaped.out[1] = Quote
         /\ escaped.out[Len(escaped.out)] = Quote
         /\ IsDoubled(field, SubSeq(escaped.out, 2, Len(escaped.out) - 1))
    ELSE escaped.out = field

\* A field with a quote and a comma was encoded.
EscapeEncodesFieldWitness ==
  /\ escaped.done
  /\ Len(field) >= 3
  /\ \E i, j \in 1..Len(field) : field[i] = Quote /\ field[j] = Comma

----------------------------------------------------------------------------
(* Export followed by import *)

\* A hand-written backup file that holds no boards: {"boards": []}.
EmptySnapshot ==
  [t |-> "object", boards |-> [t |-> "array", items |-> <<>>],
   currentBoardId |-> UndefinedId, projectCount |-> 0]

\* The files the user can pick: the one downloaded last, or the empty backup.
ImportFiles == (IF file.present THEN {file.doc} ELSE {}) \cup {EmptySnapshot}

\* confirm() is only asked when the store holds boards.
Answers == IF boards # <<>> THEN BOOLEAN ELSE {TRUE}

ImpCreateBoard ==
  /\ clock < MaxImportOps
  /\ Len(boards) < MaxBoards
  /\ createBoardAct(<<"B">>, <<"proj">>, <<>>, TRUE)

\* "+ Add Project" of a board's first column.
ImpCreateProject ==
  /\ clock < MaxImportOps
  /\ \E bi \in 1..Len(boards) :
       createProjectAct(boards[bi].id, boards[bi].columns[1].id, TRUE)

ImpAddLink ==
  /\ clock < MaxImportOps
  /\ \E b \in BoardIds : \E c \in ColumnIds(b) : \E p \in ProjectIdsOf(boards, b, c) :
       addLinkAct(b, c, p, <<"https://a">>, <<"a">>, TRUE)

ImpAddComment ==
  /\ clock < MaxImportOps
  /\ \E b \in BoardIds : \E c \in ColumnIds(b) : \E p \in ProjectIdsOf(boards, b, c) :
       addCommentAct(b, c, p, <<"note">>, TRUE)

ImpSelectBoard ==
  /\ clock < MaxImportOps
  /\ \E value \in BoardIds \cup {EmptyId} : selectBoardAct(value, TRUE)

ImpExport ==
  /\ clock < MaxImportOps
  /\ exportToJSONAct(TRUE)

ImpImport ==
  /\ clock < MaxImportOps
  /\ \E doc \in ImportFiles : \E answer \in Answers : \E w \in BOOLEAN :
       importFromJSONAct(doc, answer, w)

NextImport ==
  \/ ImpCreateBoard
  \/ ImpCreateProject
  \/ ImpAddLink
  \/ ImpAddComment
  \/ ImpSelectBoard
  \/ ImpExport
  \/ ImpImport

SpecImport == Init /\ [][NextImport]_vars

ImportedDoc == last.args[1]
ImportAnswer == last.args[2]
HasBoardsArray(doc) == doc.t = "object" /\ doc.boards.t = "array"

\* The last handler imported, and went through with, the snapshot that
\* exportToJSON took of the state file.boards, file.currentBoardId.
RoundTripDone ==
  /\ last.op = "importFromJSON"
  /\ file.present
  /\ ImportedDoc = file.doc
  /\ (last.boards = <<>> \/ ImportAnswer)

\* C6 as stated: after exporting a non-empty store S and importing that
\* snapshot (confirmed), boards and currentBoardId are identical to S.
RoundTripIsIdentity ==
  RoundTripDone => /\ boards = file.boards
                   /\ currentBoardId = file.currentBoardId

\* a and b are the same entries, except that where a has a Date as timestamp, b
\* has the ISO string of the same instant.
SameButDates(a, b) ==
  /\ Len(a) = Len(b)
  /\ \A i \in 1..Len(a) :
       /\ b[i] = [a[i] EXCEPT !.timestamp = b[i].timestamp]
       /\ b[i].timestamp = IF a[i].timestamp.t = "Date"
                           THEN IsoTime(a[i].timestamp.ms) ELSE a[i].timestamp

SameProject(p, q) ==
  /\ q = [p EXCEPT !.links = q.links, !.comments = q.comments]
  /\ SameButDates(p.links, q.links)
  /\ SameButDates(p.comments, q.comments)

SameColumn(c, d) ==
  /\ d = [c EXCEPT !.projects = d.projects]
  /\ Len(c.projects) = Len(d.projects)
  /\ \A i \in 1..Len(c.projects) : SameProject(c.projects[i], d.projects[i])

SameBoard(a, b) ==
  /\ b = [a EXCEPT !.columns = b.columns]
  /\ Len(a.columns) = Len(b.columns)
  /\ \A i \in 1..Len(a.columns) : SameColumn(a.columns[i], b.columns[i])

\* C6, amended: after exporting a non-empty store S and importing that snapshot
\* (confirmed), the boards are those of S in order, with their columns, projects,
\* links, comments and activity logs, except that the timestamp of a link or
\* comment which was a Date in S is the ISO string of that instant; and
\* currentBoardId is that of S if it is the id of a board of S, else the id of
\* the first board of S.
RoundTripUpToDatesAndFallback ==
  RoundTripDone =>
    /\ Len(boards) = Len(file.boards)
    /\ \A i \in 1..Len(boards) : SameBoard(file.boards[i], boards[i])
    /\ currentBoardId = IF file.currentBoardId \in {file.boards[i].id : i \in 1..Len(file.boards)}
                        THEN file.currentBoardId
                        ELSE file.boards[1].id

\* A round trip of a store that holds a comment made in this session, and whose
\* board selector was on "Select Board", into a store that held other data.
RoundTripUpToDatesAndFallbackWitness ==
  /\ RoundTripDone
  /\ file.currentBoardId = EmptyId
  /\ last.boards # file.boards
  /\ \E bi \in 1..Len(file.boards) : \E ci \in 1..Len(file.boards[bi].columns) :
       \E pi \in 1..Len(file.boards[bi].columns[ci].projects) :
         LET p == file.boards[bi].columns[ci].projects[pi] IN
         \E k \in 1..Len(p.comments) : p.comments[k].timestamp.t = "Date"

\* C8: a well-formed import into a store that holds boards asks for
\* confirmation, replaces the boards if it is accepted and leaves boards,
\* currentBoardId and the persisted blob unchanged if it is declined; into a
\* store that holds no boards it replaces them without asking.
ImportAsksBeforeReplacing ==
  (last.op = "importFromJSON" /\ HasBoardsArray(ImportedDoc)) =>
    IF last.boards # <<>>
    THEN /\ last.asked
         /\ IF ImportAnswer
            THEN boards = ImportedDoc.boards.items
            ELSE /\ boards = last.boards
                 /\ currentBoardId = last.currentBoardId
                 /\ blob = last.blob
    ELSE /\ ~last.asked
         /\ boards = ImportedDoc.boards.items

\* A declined import of a snapshot that differs from the stored boards.
ImportAsksBeforeReplacingWitness ==
  /\ last.op = "importFromJSON"
  /\ HasBoardsArray(ImportedDoc)
  /\ last.boards # <<>>
  /\ ~ImportAnswer
  /\ last.asked
  /\ ImportedDoc.boards.items # last.boards
  /\ blob.present

\* An import of a snapshot with boards into a store that holds none.
ImportIntoEmptyStore ==
  /\ last.op = "importFromJSON"
  /\ HasBoardsArray(ImportedDoc)
  /\ last.boards = <<>>
  /\ boards # <<>>

----------------------------------------------------------------------------
(* Import of files that are no backup *)

BoardsValues == {[t |-> "absent"], [t |-> "null"], [t |-> "string"], [t |-> "object"]}

\* Documents without a boards array: text that is no JSON, top-level values
\* that are no object, and objects whose boards is absent, null, a string or an
\* object, with and without a projectCount.
MalformedDocs ==
  {[t |-> k] : k \in {"invalid", "null", "number", "string", "array"}}
    \cup {[t |-> "object", boards |-> bv, currentBoardId |-> UndefinedId, projectCount |-> n] :
            bv \in BoardsValues, n \in {0, 1}}

RejCreateBoard ==
  /\ clock < MaxRejectOps
  /\ boards = <<>>
  /\ \E w \in BOOLEAN : createBoardAct(<<"B">>, <<"proj">>, <<>>, w)

RejImport ==
  /\ clock < MaxRejectOps
  /\ \E doc \in MalformedDocs : \E answer \in BOOLEAN : importFromJSONAct(doc, answer, TRUE)

NextReject ==
  \/ RejCreateBoard
  \/ RejImport

SpecReject == Init /\ [][NextReject]_vars

\* C7: importing a document whose parsed value has no boards field, or whose
\* boards field is no array, leaves the boards, currentBoardId and the persisted
\* blob as they were, and saves nothing.
ImportRejectsMalformed ==
  (/\ last.op = "importFromJSON"
   /\ ImportedDoc.t # "invalid"
   /\ ~HasBoardsArray(ImportedDoc)) =>
    /\ boards = last.boards
    /\ currentBoardId = last.currentBoardId
    /\ blob = last.blob
    /\ last.saves = 0
    /\ ~last.asked

\* A file whose boards is a string and which carries a projectCount, imported
\* (the user would accept) into a store that holds a board and a saved blob.
ImportRejectsMalformedWitness ==
  /\ last.op = "importFromJSON"
  /\ ImportedDoc.t = "object"
  /\ ImportedDoc.boards.t = "string"
  /\ ImportedDoc.projectCount # 0
  /\ ImportAnswer
  /\ boards # <<>>
  /\ blob.present

----------------------------------------------------------------------------
(* The page before startup, with what an earlier session left in storage *)

\* The earlier session: a machine with working storage and nothing stored.
EarlierStart ==
  [boards |-> <<>>, currentBoardId |-> Null, ids |-> 1, now |-> 0,
   currentContext |-> NoContext, storageAvailable |-> TRUE, started |-> TRUE,
   timer |-> TRUE, dragState |-> NoDrag, blob |-> NoBlob, lastBackupTime |-> Null,
   file |-> NoFile, writes |-> TRUE, saves |-> 0, failed |-> 0, asked |-> FALSE,
   threw |-> FALSE]

\* What the earlier session did: one board; a project in its first column with
\* a link and a comment; a project in its second column.
EarlierBoard == createBoard(EarlierStart, <<"B">>, <<"proj">>, <<>>)
EarlierFirst ==
  createProject(EarlierBoard, EarlierBoard.boards[1].id, EarlierBoard.boards[1].columns[1].id)
EarlierLink ==
  addLink(EarlierFirst, EarlierFirst.boards[1].id, EarlierFirst.boards[1].columns[1].id,
          EarlierFirst.boards[1].columns[1].projects[1].id, <<"https://a">>, <<"a">>)
EarlierComment ==
  addComment(EarlierLink, EarlierLink.boards[1].id, EarlierLink.boards[1].columns[1].id,
             EarlierLink.boards[1].columns[1].projects[1].id, <<"note">>)
EarlierSession ==
  createProject(EarlierComment, EarlierComment.boards[1].id,
                EarlierComment.boards[1].columns[2].id)

\* The module-level initialisers of app.js, before DOMContentLoaded; storage
\* holds nothing or the blob of the earlier session, whose ids are taken.
InitPage ==
  /\ boards = <<>>
  /\ currentBoardId = Null
  /\ ids = EarlierSession.ids
  /\ clock = 0
  /\ currentContext = NoContext
  /\ storageAvailable = FALSE
  /\ started = FALSE
  /\ timer = FALSE
  /\ dragState = NoDrag
  /\ blob \in {NoBlob, EarlierSession.blob}
  /\ lastBackupTime = Null
  /\ file = NoFile
  /\ last = [op |-> "load", args |-> <<>>, boards |-> <<>>, currentBoardId |-> Null,
             blob |-> blob, saves |-> 0, failed |-> 0, asked |-> FALSE, threw |-> FALSE,
             writes |-> TRUE]
  /\ field = <<>>
  /\ escaped = NotEscaped

\* An id that resolves to nothing.
MissingId == -3

RECURSIVE AllColumns(_)
AllColumns(bs) ==
  IF bs = <<>> THEN <<>> ELSE Head(bs).columns \o AllColumns(Tail(bs))
AllProjects(bs) == BoardProjects(AllColumns(bs))
RECURSIVE AllLinks(_)
AllLinks(ps) ==
  IF ps = <<>> THEN <<>> ELSE Head(ps).links \o AllLinks(Tail(ps))
RECURSIVE AllComments(_)
AllComments(ps) ==
  IF ps = <<>> THEN <<>> ELSE Head(ps).comments \o AllComments(Tail(ps))
RECURSIVE AllActivities(_)
AllActivities(ps) ==
  IF ps = <<>> THEN <<>> ELSE Head(ps).activityLog \o AllActivities(Tail(ps))
IdsOf(arr) == {arr[i].id : i \in 1..Len(arr)}

\* The ids a caller may pass: those of the entities of the store, and one that
\* resolves to nothing.
BoardPool == IdsOf(boards) \cup {MissingId}
ColumnPool == IdsOf(AllColumns(boards)) \cup {MissingId}
ProjectPool == IdsOf(AllProjects(boards)) \cup {MissingId}
LinkPool == IdsOf(AllLinks(AllProjects(boards))) \cup {MissingId}
CommentPool == IdsOf(AllComments(AllProjects(boards))) \cup {MissingId}

----------------------------------------------------------------------------
(* The store engine: every operation, on ids that resolve and ids that do not *)

BoardUpdates ==
  { [name |-> <<"Renamed">>],
    [projectIdPrefix |-> <<"Q">>, description |-> <<"d">>],
    [id |-> EmptyId] }

ColumnUpdates == { [title |-> <<"Renamed">>], [id |-> EmptyId] }

ProjectUpdates ==
  { [projectName |-> <<"Renamed">>],
    [projectId |-> <<"Q", "-", "7">>, description |-> <<"d">>],
    [id |-> EmptyId],
    [activityLog |-> <<>>] }

LinkInputs == { <<<<"https://a">>, <<"a">>>>, <<<<"https://b">>, <<"a">>>>,
                <<<<"https://a">>, <<"b">>>>, <<<<"https://b">>, <<"b">>>> }

StoStartup ==
  /\ ~started
  /\ \E probe \in BOOLEAN : DOMContentLoadedAct(probe)

StoCreateBoard ==
  /\ started /\ clock < MaxStoreOps
  /\ \E w \in BOOLEAN :
     createBoardAct(<<"C">>, <<"q">>, <<>>, w)

StoUpdateBoard ==
  /\ started /\ clock < MaxStoreOps
  /\ \E w \in BOOLEAN :
     \E b \in BoardPool : \E u \in BoardUpdates : updateBoardAct(b, u, w)

StoDeleteBoard ==
  /\ started /\ clock < MaxStoreOps
  /\ \E w \in BOOLEAN :
     \E b \in BoardPool : deleteBoardAct(b, w)

StoCreateColumn ==
  /\ started /\ clock < MaxStoreOps
  /\ \E w \in BOOLEAN :
     \E b \in BoardPool : createColumnAct(b, <<"Later">>, w)

StoUpdateColumn ==
  /\ started /\ clock < MaxStoreOps
  /\ \E w \in BOOLEAN :
     \E b \in BoardPool : \E c \in ColumnPool : \E u \in ColumnUpdates :
         updateColumnAct(b, c, u, w)

StoDeleteColumn ==
  /\ started /\ clock < MaxStoreOps
  /\ \E w \in BOOLEAN :
     \E b \in BoardPool : \E c \in ColumnPool : deleteColumnAct(b, c, w)

StoReorderColumns ==
  /\ started /\ clock < MaxStoreOps
  /\ \E w \in BOOLEAN :
     \E bi \in 1..Len(boards) : \E from, to \in 0..(Len(boards[bi].columns) - 1) :
         reorderColumnsAct(boards[bi].id, from, to, w)

StoCreateProject ==
  /\ started /\ clock < MaxStoreOps
  /\ \E w \in BOOLEAN :
     \E b \in BoardPool : \E c \in ColumnPool : createProjectAct(b, c, w)

StoUpdateProject ==
  /\ started /\ clock < MaxStoreOps
  /\ \E w \in BOOLEAN :
     \E b \in BoardPool : \E c \in ColumnPool : \E p \in ProjectPool :
         \E u \in ProjectUpdates : updateProjectAct(b, c, p, u, w)

StoDeleteProject ==
  /\ started /\ clock < MaxStoreOps
  /\ \E w \in BOOLEAN :
     \E b \in BoardPool : \E c \in ColumnPool : \E p \in ProjectPool :
         deleteProjectAct(b, c, p, w)

StoMoveProject ==
  /\ started /\ clock < MaxStoreOps
  /\ \E w \in BOOLEAN :
     \E b \in BoardPool : \E f, t \in ColumnPool : \E p \in ProjectPool :
         \E toIndex \in {0, 1} : moveProjectAct(b, f, t, p, toIndex, w)

StoAddLink ==
  /\ started /\ clock < MaxStoreOps
  /\ \E w \in BOOLEAN :
     \E b \in BoardPool : \E c \in ColumnPool : \E p \in ProjectPool :
         addLinkAct(b, c, p, <<"https://b">>, <<"b">>, w)

StoUpdateLink ==
  /\ started /\ clock < MaxStoreOps
  /\ \E w \in BOOLEAN :
     \E b \in BoardPool : \E c \in ColumnPool : \E p \in ProjectPool : \E l \in LinkPool :
         \E in \in LinkInputs : updateLinkAct(b, c, p, l, in[1], in[2], w)

StoDeleteLink ==
  /\ started /\ clock < MaxStoreOps
  /\ \E w \in BOOLEAN :
     \E b \in BoardPool : \E c \in ColumnPool : \E p \in ProjectPool : \E l \in LinkPool :
         deleteLinkAct(b, c, p, l, w)

StoAddComment ==
  /\ started /\ clock < MaxStoreOps
  /\ \E w \in BOOLEAN :
     \E b \in BoardPool : \E c \in ColumnPool : \E p \in ProjectPool :
         addCommentAct(b, c, p, <<"more">>, w)

StoUpdateComment ==
  /\ started /\ clock < MaxStoreOps
  /\ \E w \in BOOLEAN :
     \E b \in BoardPool : \E c \in ColumnPool : \E p \in ProjectPool :
         \E k \in CommentPool : \E text \in {<<"note">>, <<"edited">>} :
           updateCommentAct(b, c, p, k, text, w)

StoDeleteComment ==
  /\ started /\ clock < MaxStoreOps
  /\ \E w \in BOOLEAN :
     \E b \in BoardPool : \E c \in ColumnPool : \E p \in ProjectPool :
         \E k \in CommentPool : deleteCommentAct(b, c, p, k, w)

StoLogActivity ==
  /\ started /\ clock < MaxStoreOps
  /\ \E w \in BOOLEAN :
     \E b \in BoardPool : \E c \in ColumnPool : \E p \in ProjectPool :
         logActivityAct(b, c, p, w)

\* The auto-save interval fires.
StoAutoSave ==
  /\ started /\ clock < MaxStoreOps
  /\ timer
  /\ \E w \in BOOLEAN : autoSaveAct(w)

NextStore ==
  \/ StoStartup
  \/ StoAutoSave
  \/ StoCreateBoard
  \/ StoUpdateBoard
  \/ StoDeleteBoard
  \/ StoCreateColumn
  \/ StoUpdateColumn
  \/ StoDeleteColumn
  \/ StoReorderColumns
  \/ StoCreateProject
  \/ StoUpdateProject
  \/ StoDeleteProject
  \/ StoMoveProject
  \/ StoAddLink
  \/ StoUpdateLink
  \/ StoDeleteLink
  \/ StoAddComment
  \/ StoUpdateComment
  \/ StoDeleteComment
  \/ StoLogActivity

SpecStore == InitPage /\ [][NextStore]_vars

\* s is a suffix of t.
IsSuffix(s, t) ==
  /\ Len(s) <= Len(t)
  /\ \A i \in 1..Len(s) : s[i] = t[Len(t) - Len(s) + i]

\* C11: for every store operation other than import and clear-all and every
\* project that exists before and after it, the project's activity log before
\* the operation is a suffix of its log after the operation.
LogsOnlyGrowAtHead ==
  last.op \notin {"importFromJSON", "clearAllData"} =>
    LET before == AllProjects(last.boards)
        after == AllProjects(boards)
    IN \A i \in 1..Len(before) : \A j \in 1..Len(after) :
         before[i].id = after[j].id =>
           IsSuffix(before[i].activityLog, after[j].activityLog)

\* Every id of the store: boards, columns, projects, links, comments, activities.
EntityIds(bs) ==
  LET ps == AllProjects(bs) IN
  <<IdsOf(bs), IdsOf(AllColumns(bs)), IdsOf(ps), IdsOf(AllLinks(ps)),
    IdsOf(AllComments(ps)), IdsOf(AllActivities(ps))>>

EntityCount(bs) ==
  LET ps == AllProjects(bs) IN
  Len(bs) + Len(AllColumns(bs)) + Len(ps) + Len(AllLinks(ps)) + Len(AllComments(ps))
    + Len(AllActivities(ps))

\* C12: all entity ids of the store are pairwise distinct, and updateBoard,
\* updateColumn and updateProject leave the id of every board, column and
\* project as it was.
IdsUniqueAndImmutable ==
  LET e == EntityIds(boards) IN
  /\ Cardinality(e[1] \cup e[2] \cup e[3] \cup e[4] \cup e[5] \cup e[6]) = EntityCount(boards)
  /\ last.op \in {"updateBoard", "updateColumn", "updateProject"} =>
       /\ [i \in 1..Len(boards) |-> boards[i].id]
            = [i \in 1..Len(last.boards) |-> last.boards[i].id]
       /\ [i \in 1..Len(AllColumns(boards)) |-> AllColumns(boards)[i].id]
            = [i \in 1..Len(AllColumns(last.boards)) |-> AllColumns(last.boards)[i].id]
       /\ [i \in 1..Len(AllProjects(boards)) |-> AllProjects(boards)[i].id]
            = [i \in 1..Len(AllProjects(last.boards)) |-> AllProjects(last.boards)[i].id]

\* What the ids given to the last operation resolved to in the state it started from.
HasBoard(bs, b) == \E i \in 1..Len(bs) : bs[i].id = b
HasColumn(bs, b, c) ==
  \E i \in 1..Len(bs) : bs[i].id = b /\ \E j \in 1..Len(bs[i].columns) : bs[i].columns[j].id = c
HasProjectIn(bs, b, c, p) ==
  \E i \in 1..Len(bs) :
    /\ bs[i].id = b
    /\ \E j \in 1..Len(bs[i].columns) :
         /\ bs[i].columns[j].id = c
         /\ \E k \in 1..Len(bs[i].columns[j].projects) : bs[i].columns[j].projects[k].id = p
HasLink(bs, b, c, p, l) ==
  \E i \in 1..Len(bs) : \E j \in 1..Len(bs[i].columns) :
    \E k \in 1..Len(bs[i].columns[j].projects) :
      /\ bs[i].id = b /\ bs[i].columns[j].id = c /\ bs[i].columns[j].projects[k].id = p
      /\ l \in IdsOf(bs[i].columns[j].projects[k].links)
HasComment(bs, b, c, p, k) ==
  \E i \in 1..Len(bs) : \E j \in 1..Len(bs[i].columns) :
    \E n \in 1..Len(bs[i].columns[j].projects) :
      /\ bs[i].id = b /\ bs[i].columns[j].id = c /\ bs[i].columns[j].projects[n].id = p
      /\ k \in IdsOf(bs[i].columns[j].projects[n].comments)

BoardOps == {"updateBoard", "deleteBoard", "createColumn"}
ColumnOps == {"updateColumn", "deleteColumn", "createProject"}
ProjectOps == {"updateProject", "deleteProject", "addLink", "addComment", "logActivity"}
LinkOps == {"updateLink", "deleteLink"}
CommentOps == {"updateComment", "deleteComment"}
ResolvingOps ==
  BoardOps \cup ColumnOps \cup ProjectOps \cup LinkOps \cup CommentOps \cup {"moveProject"}

\* The ids of the last operation all resolved.
Resolved ==
  LET a == last.args
      bs == last.boards
  IN CASE last.op \in BoardOps -> HasBoard(bs, a[1])
       [] last.op \in ColumnOps -> HasColumn(bs, a[1], a[2])
       [] last.op \in ProjectOps -> HasProjectIn(bs, a[1], a[2], a[3])
       [] last.op \in LinkOps -> HasLink(bs, a[1], a[2], a[3], a[4])
       [] last.op \in CommentOps -> HasComment(bs, a[1], a[2], a[3], a[4])
       [] last.op = "moveProject" ->
            HasColumn(bs, a[1], a[3]) /\ HasProjectIn(bs, a[1], a[2], a[4])
       [] OTHER -> TRUE

\* C13: an operation given an id that does not resolve at some level raises
\* nothing, leaves boards and currentBoardId unchanged (so appends no activity),
\* and performs no persistence write.
LookupMissIsNoOp ==
  (last.op \in ResolvingOps /\ ~Resolved) =>
    /\ ~last.threw
    /\ boards = last.boards
    /\ currentBoardId = last.currentBoardId
    /\ last.saves = 0
    /\ blob = last.blob

\* deleteComment was given the ids of a board, column and project that resolve,
\* and a comment id that does not, on a project that has a comment.
LookupMissIsNoOpWitness ==
  /\ last.op = "deleteComment"
  /\ HasProjectIn(last.boards, last.args[1], last.args[2], last.args[3])
  /\ ~HasComment(last.boards, last.args[1], last.args[2], last.args[3], last.args[4])
  /\ \E k \in CommentPool :
       HasComment(last.boards, last.args[1], last.args[2], last.args[3], k)
  /\ storageAvailable
  /\ last.writes

\* The operations that persist when they find their target.
PersistingOps ==
  (ResolvingOps \ {"logActivity"}) \cup {"createBoard", "reorderColumns"}

\* C14: with storage available and the write succeeding, after each store
\* operation that found its target the persisted blob holds the boards and the
\* currentBoardId of the in-memory store as they are after the operation.
BlobFollowsStore ==
  (/\ last.op \in PersistingOps
   /\ Resolved
   /\ storageAvailable
   /\ last.writes
   /\ ~last.threw) =>
    /\ blob.present
    /\ blob.boards = JsonBoards(boards)
    /\ blob.currentBoardId = currentBoardId

\* A project was created (which logs an activity) with storage taking the write.
BlobFollowsStoreWitness ==
  /\ last.op = "createProject"
  /\ Resolved
  /\ storageAvailable
  /\ last.writes
  /\ blob.present
  /\ Len(AllProjects(boards)) > Len(AllProjects(last.boards))

\* The machine the last operation started from, with storage taking its writes.
Before ==
  [Machine(TRUE) EXCEPT !.boards = last.boards, !.currentBoardId = last.currentBoardId,
                        !.blob = last.blob, !.ids = last.ids, !.now = last.now]

\* The last operation again, from that machine.
Again ==
  LET a == last.args
      m == Before
  IN CASE last.op = "createBoard" -> createBoard(m, a[1], a[2], a[3])
       [] last.op = "updateBoard" -> updateBoard(m, a[1], a[2])
       [] last.op = "deleteBoard" -> deleteBoard(m, a[1])
       [] last.op = "createColumn" -> createColumn(m, a[1], a[2])
       [] last.op = "updateColumn" -> updateColumn(m, a[1], a[2], a[3])
       [] last.op = "deleteColumn" -> deleteColumn(m, a[1], a[2])
       [] last.op = "reorderColumns" -> reorderColumns(m, a[1], a[2], a[3])
       [] last.op = "createProject" -> createProject(m, a[1], a[2])
       [] last.op = "updateProject" -> updateProject(m, a[1], a[2], a[3], a[4])
       [] last.op = "deleteProject" -> deleteProject(m, a[1], a[2], a[3])
       [] last.op = "moveProject" -> moveProject(m, a[1], a[2], a[3], a[4], a[5])
       [] last.op = "addLink" -> addLink(m, a[1], a[2], a[3], a[4], a[5])
       [] last.op = "updateLink" -> updateLink(m, a[1], a[2], a[3], a[4], a[5], a[6])
       [] last.op = "deleteLink" -> deleteLink(m, a[1], a[2], a[3], a[4])
       [] last.op = "addComment" -> addComment(m, a[1], a[2], a[3], a[4])
       [] last.op = "updateComment" -> updateComment(m, a[1], a[2], a[3], a[4], a[5])
       [] last.op = "deleteComment" -> deleteComment(m, a[1], a[2], a[3], a[4])

\* C15: when the persistence write of a store operation fails, the operation
\* raises nothing, the in-memory boards and currentBoardId are what the
\* operation leaves when the write succeeds, and the persisted blob keeps its value.
WriteFailureKeepsMemory ==
  (/\ last.op \in PersistingOps
   /\ Resolved
   /\ storageAvailable
   /\ ~last.writes) =>
    /\ ~last.threw
    /\ last.saves > 0
    /\ blob = last.blob
    /\ boards = Again.boards
    /\ currentBoardId = Again.currentBoardId

\* A comment was deleted (logged, then removed) while storage refused the write.
WriteFailureKeepsMemoryWitness ==
  /\ last.op = "deleteComment"
  /\ Resolved
  /\ storageAvailable
  /\ ~last.writes
  /\ last.blob.present
  /\ boards # last.boards

\* C16: the storage probe is evaluated at startup and its result does not change
\* afterwards; if it failed, nothing is loaded from storage, no auto-save timer
\* is installed, every saveData call returns false without raising, and the
\* stored blob is never written.
ProbeFailureSilencesStorage ==
  /\ [](started /\ ~storageAvailable =>
          /\ ~timer
          /\ last.op # "autoSave"
          /\ ~last.threw
          /\ last.failed = last.saves
          /\ (last.op = "DOMContentLoaded" => boards = <<>> /\ currentBoardId = Null))
  /\ [][started => /\ started'
                   /\ storageAvailable' = storageAvailable
                   /\ (~storageAvailable => blob' = blob)]_vars

\* The probe failed while storage held the blob of an earlier session, and an
\* operation that calls saveData has run since.
ProbeFailureSilencesStorageWitness ==
  /\ started
  /\ ~storageAvailable
  /\ blob.present
  /\ boards # <<>>
  /\ last.saves > 0

----------------------------------------------------------------------------
(* The list of boards: createBoard, deleteBoard, the board selector *)

BrdCreateBoard ==
  /\ clock < MaxBoardOps
  /\ Len(boards) < MaxBoards
  /\ \E prefix \in {<<"q">>, <<"PROJ">>} : \E w \in BOOLEAN :
       createBoardAct(<<"B">>, prefix, <<"d">>, w)

BrdCreateProject ==
  /\ clock < MaxBoardOps
  /\ \E bi \in 1..Len(boards) :
       createProjectAct(boards[bi].id, boards[bi].columns[1].id, TRUE)

BrdSelectBoard ==
  /\ clock < MaxBoardOps
  /\ \E value \in BoardIds \cup {EmptyId} : selectBoardAct(value, TRUE)

BrdDeleteBoard ==
  /\ clock < MaxBoardOps
  /\ \E b \in BoardIds : \E w \in BOOLEAN : deleteBoardAct(b, w)

NextBoards ==
  \/ BrdCreateBoard
  \/ BrdCreateProject
  \/ BrdSelectBoard
  \/ BrdDeleteBoard

SpecBoards == Init /\ [][NextBoards]_vars

LowerLetters == {"proj", "p", "q"}

\* C17: createBoard appends one board at the end of the list, with the name and
\* description given, the prefix in upper case, and three columns To Do, In
\* Progress, Done of order 0, 1, 2 without projects; the new board becomes the
\* current board and the boards that existed are unchanged.
CreateBoardAppendsBoard ==
  last.op = "createBoard" =>
    LET n == Len(boards)
        new == boards[n]
    IN /\ n = Len(last.boards) + 1
       /\ SubSeq(boards, 1, n - 1) = last.boards
       /\ new.id \notin IdsOf(last.boards)
       /\ new.name = last.args[1]
       /\ new.description = last.args[3]
       /\ Len(new.projectIdPrefix) = Len(last.args[2])
       /\ \A i \in 1..Len(new.projectIdPrefix) :
            /\ new.projectIdPrefix[i] \notin LowerLetters
            /\ last.args[2][i] \notin LowerLetters => new.projectIdPrefix[i] = last.args[2][i]
       /\ [i \in 1..Len(new.columns) |-> new.columns[i].title]
            = << <<"To Do">>, <<"In Progress">>, <<"Done">> >>
       /\ \A i \in 1..Len(new.columns) :
            new.columns[i].order = i - 1 /\ new.columns[i].projects = <<>>
       /\ currentBoardId = new.id

\* A second board was created with a lower-case prefix while the first board,
\* which has a project, was the current one.
CreateBoardAppendsBoardWitness ==
  /\ last.op = "createBoard"
  /\ last.args[2] = <<"q">>
  /\ Len(last.boards) = 1
  /\ last.currentBoardId = last.boards[1].id
  /\ AllProjects(last.boards) # <<>>
  /\ boards[2].projectIdPrefix = <<"Q">>

\* C18: deleteBoard of an existing board removes it and keeps the other boards
\* as they are and in their order; currentBoardId becomes the id of the first
\* remaining board, or none, if the deleted board was the current one, and is
\* unchanged otherwise.
DeleteBoardReselects ==
  (last.op = "deleteBoard" /\ HasBoard(last.boards, last.args[1])) =>
    /\ boards = Others(last.boards, last.args[1])
    /\ Len(boards) = Len(last.boards) - 1
    /\ currentBoardId =
         IF last.currentBoardId # last.args[1] THEN last.currentBoardId
         ELSE IF boards # <<>> THEN boards[1].id
         ELSE Null

\* The first of two boards, the current one, was deleted; it had a project.
DeleteBoardReselectsWitness ==
  /\ last.op = "deleteBoard"
  /\ Len(last.boards) = 2
  /\ last.args[1] = last.boards[1].id
  /\ last.currentBoardId = last.args[1]
  /\ last.boards[1].columns[1].projects # <<>>
  /\ currentBoardId = last.boards[2].id


----------------------------------------------------------------------------
(* The current board after an import *)

\* A backup file that holds no boards but names a current board:
\* {"boards": [], "currentBoardId": "board-9"}.
StaleSnapshot ==
  [t |-> "object", boards |-> [t |-> "array", items |-> <<>>],
   currentBoardId |-> MissingId, projectCount |-> 0]

\* The files the user can pick: the one downloaded last, or a hand-written one.
RestoreFiles ==
  (IF file.present THEN {file.doc} ELSE {}) \cup {EmptySnapshot, StaleSnapshot}

RstCreateBoard ==
  /\ clock < MaxRestoreOps
  /\ Len(boards) < MaxBoards
  /\ createBoardAct(<<"B">>, <<"proj">>, <<>>, TRUE)

\* The selector holds the placeholder option, of value "", and the boards.
RstSelectBoard ==
  /\ clock < MaxRestoreOps
  /\ \E value \in BoardIds \cup {EmptyId} : selectBoardAct(value, TRUE)

RstDeleteBoard ==
  /\ clock < MaxRestoreOps
  /\ \E b \in BoardIds : deleteBoardAct(b, TRUE)

RstExport ==
  /\ clock < MaxRestoreOps
  /\ exportToJSONAct(TRUE)

RstImport ==
  /\ clock < MaxRestoreOps
  /\ \E doc \in RestoreFiles : \E answer \in Answers : \E w \in BOOLEAN :
       importFromJSONAct(doc, answer, w)

NextRestore ==
  \/ RstCreateBoard
  \/ RstSelectBoard
  \/ RstDeleteBoard
  \/ RstExport
  \/ RstImport

SpecRestore == Init /\ [][NextRestore]_vars

\* The last handler was an import that replaced the store.
ImportWentThrough ==
  /\ last.op = "importFromJSON"
  /\ HasBoardsArray(ImportedDoc)
  /\ (last.boards = <<>> \/ ImportAnswer)

\* C19: after a confirmed import currentBoardId is the snapshot's when that
\* resolves to an imported board, else the id of the snapshot's first board
\* when the snapshot has boards, else no board id at all.
ImportResolvesCurrentBoard ==
  ImportWentThrough =>
    LET items == ImportedDoc.boards.items IN
    IF FindIndexById(items, ImportedDoc.currentBoardId) # 0
      THEN currentBoardId = ImportedDoc.currentBoardId
    ELSE IF items # <<>> THEN currentBoardId = items[1].id
    ELSE currentBoardId \in {Null, UndefinedId}

\* The two cases with boards: the snapshot's current board is kept, and a
\* snapshot taken while the placeholder was selected falls back to its first board.
ImportWithBoardsResolves ==
  (ImportWentThrough /\ ImportedDoc.boards.items # <<>>) =>
    LET items == ImportedDoc.boards.items IN
    currentBoardId = IF FindIndexById(items, ImportedDoc.currentBoardId) # 0
                     THEN ImportedDoc.currentBoardId ELSE items[1].id

ImportFallsBackToFirstBoard ==
  /\ ImportWentThrough
  /\ Len(ImportedDoc.boards.items) = 2
  /\ ImportedDoc.currentBoardId = EmptyId
  /\ currentBoardId = ImportedDoc.boards.items[1].id

ImportKeepsSecondBoard ==
  /\ ImportWentThrough
  /\ Len(ImportedDoc.boards.items) = 2
  /\ ImportedDoc.currentBoardId = ImportedDoc.boards.items[2].id
  /\ currentBoardId = ImportedDoc.currentBoardId

----------------------------------------------------------------------------
(* Dragging a project card onto a column body *)

DrgCreateBoard ==
  /\ clock < MaxDragOps
  /\ boards = <<>>
  /\ createBoardAct(<<"B">>, <<"proj">>, <<>>, TRUE)

\* "+ Add Project" of the first column of the board shown.
DrgCreateProject ==
  /\ clock < MaxDragOps
  /\ \E bi \in 1..Len(boards) :
       /\ boards[bi].id = currentBoardId
       /\ createProjectAct(boards[bi].id, boards[bi].columns[1].id, TRUE)

\* dragstart of a card of the board shown: its data-project-id and data-column-id.
DrgProjectDragStart ==
  /\ clock < MaxDragOps
  /\ \E c \in ColumnIds(currentBoardId) :
       \E p \in ProjectIdsOf(boards, currentBoardId, c) : handleProjectDragStartAct(p, c)

DrgProjectDragEnd ==
  /\ clock < MaxDragOps
  /\ dragState.type = "project"
  /\ handleProjectDragEndAct

\* dragstart of a column header of the board shown.
DrgColumnDragStart ==
  /\ clock < MaxDragOps
  /\ \E bi \in 1..Len(boards) :
       /\ boards[bi].id = currentBoardId
       /\ handleColumnDragStartAct(boards[bi].columns[1].id, 0)

\* drop on the body of a column of the board shown.
DrgColumnDrop ==
  /\ clock < MaxDragOps
  /\ \E c \in ColumnIds(currentBoardId) : \E w \in BOOLEAN : handleColumnDropAct(c, w)

NextDrag ==
  \/ DrgCreateBoard
  \/ DrgCreateProject
  \/ DrgProjectDragStart
  \/ DrgProjectDragEnd
  \/ DrgColumnDragStart
  \/ DrgColumnDrop

SpecDrag == Init /\ [][NextDrag]_vars

\* What the last drop was given: the board shown, the card's column, the column
\* dropped on, the card.  handleColumnDrop leaves dragState as it was.
DropBoard == FindIndexById(last.boards, last.currentBoardId)
DropColumns == last.boards[DropBoard].columns
DropFrom == FindIndexById(DropColumns, dragState.sourceColumnId)
DropTo == FindIndexById(DropColumns, last.args[1])
DropProject == dragState.sourceId

\* The last handler was a drop, during a project drag, of a card that is in the
\* column it was dragged from.
DroppedProject ==
  /\ last.op = "handleColumnDrop"
  /\ dragState.type = "project"
  /\ DropBoard # 0
  /\ DropFrom # 0
  /\ DropTo # 0
  /\ FindIndexById(DropColumns[DropFrom].projects, DropProject) # 0

\* C20: a drop on a column body during a project drag is moveProject to the index
\* that is the destination's project count at drop time; afterwards the card is
\* the last project of the destination, whether this is another column or the
\* card's own, and the other projects are where they were, in their order.
ColumnDropAppends ==
  DroppedProject =>
    LET new == boards[DropBoard].columns
        dest == new[DropTo].projects
        count == Len(DropColumns[DropTo].projects)
    IN /\ ~last.threw
       /\ boards = moveProject(Before, last.currentBoardId, dragState.sourceColumnId,
                               last.args[1], DropProject, count).boards
       /\ dest # <<>>
       /\ dest[Len(dest)].id = DropProject
       /\ SubSeq(dest, 1, Len(dest) - 1) = Others(DropColumns[DropTo].projects, DropProject)
       /\ Len(new) = Len(DropColumns)
       /\ \A ci \in 1..Len(new) :
            ci # DropTo => new[ci].projects = Others(DropColumns[ci].projects, DropProject)
       /\ \A bi \in 1..Len(boards) : bi # DropBoard => boards[bi] = last.boards[bi]

\* The first of two cards of a column was dropped on its own column.
ColumnDropAppendsWitness ==
  /\ DroppedProject
  /\ DropFrom = DropTo
  /\ Len(DropColumns[DropTo].projects) = 2
  /\ DropColumns[DropTo].projects[1].id = DropProject
  /\ boards[DropBoard].columns[DropTo].projects[2].id = DropProject

\* A card was dropped on another column, which held a card already.
DropOnOtherColumn ==
  /\ DroppedProject
  /\ DropFrom # DropTo
  /\ DropColumns[DropTo].projects # <<>>
  /\ Len(boards[DropBoard].columns[DropTo].projects) = 2

----------------------------------------------------------------------------
(* Dragging columns, and cards inside them: the events as they are dispatched *)

\* The board shown, as renderBoard laid it out: data-column-index is the index.
ShownColumns ==
  LET bi == FindIndexById(boards, currentBoardId) IN
  IF bi = 0 THEN <<>> ELSE boards[bi].columns

CdgCreateBoard ==
  /\ clock < MaxColumnDragOps
  /\ boards = <<>>
  /\ createBoardAct(<<"B">>, <<"proj">>, <<>>, TRUE)

CdgCreateProject ==
  /\ clock < MaxColumnDragOps
  /\ \E ci \in 1..Len(ShownColumns) :
       createProjectAct(currentBoardId, ShownColumns[ci].id, TRUE)

\* dragstart on a card.
CdgCardDragStart ==
  /\ clock < MaxColumnDragOps
  /\ \E ci \in 1..Len(ShownColumns) : \E pi \in 1..Len(ShownColumns[ci].projects) :
       cardDragStartAct(ShownColumns[ci].projects[pi].id, ShownColumns[ci].id, ci - 1)

\* dragstart on a column, outside its cards.
CdgColumnDragStart ==
  /\ clock < MaxColumnDragOps
  /\ \E ci \in 1..Len(ShownColumns) : handleColumnDragStartAct(ShownColumns[ci].id, ci - 1)

\* drop on a column body.
CdgBodyDrop ==
  /\ clock < MaxColumnDragOps
  /\ \E ci \in 1..Len(ShownColumns) : \E w \in BOOLEAN :
       bodyDropAct(ShownColumns[ci].id, ci - 1, w)

\* drop on a column outside its body: header or footer.
CdgColumnDrop ==
  /\ clock < MaxColumnDragOps
  /\ \E ci \in 1..Len(ShownColumns) : \E w \in BOOLEAN :
       handleColumnReorderDropAct(ci - 1, w)

\* dragend, where the browser delivers it, at the card or column dragged.
CdgCardDragEnd ==
  /\ clock < MaxColumnDragOps
  /\ dragState.type = "project"
  /\ cardDragEndAct

CdgColumnDragEnd ==
  /\ clock < MaxColumnDragOps
  /\ dragState.type = "column"
  /\ handleColumnDragEndAct

NextColumnDrag ==
  \/ CdgCreateBoard
  \/ CdgCreateProject
  \/ CdgCardDragStart
  \/ CdgColumnDragStart
  \/ CdgBodyDrop
  \/ CdgColumnDrop
  \/ CdgCardDragEnd
  \/ CdgColumnDragEnd

SpecColumnDrag == Init /\ [][NextColumnDrag]_vars

\* The index of the column the last drop was on.
DropIndex == IF last.op = "bodyDrop" THEN last.args[2] ELSE last.args[1]

\* The last event was a drop that completed a drag: of a card over a column
\* body, or of a column over a column at another index.
CompletedProjectDrag == last.op = "bodyDrop" /\ last.dragState.type = "project"
ColumnDragDrop ==
  /\ last.op \in {"bodyDrop", "handleColumnReorderDrop"}
  /\ last.dragState.type = "column"
CompletedColumnDrag == ColumnDragDrop /\ last.dragState.sourceIndex # DropIndex

\* C21: a drop that completes a project drag or a column drag leaves the
\* controller idle: no type, source id, source column id or source index.
DropLeavesIdle ==
  (CompletedProjectDrag \/ CompletedColumnDrag) => dragState = NoDrag

\* The drop listeners leave dragState as they found it.
DropKeepsDragState ==
  last.op \in {"bodyDrop", "handleColumnReorderDrop"} => dragState = last.dragState

\* C22: during a column drag started at index s a drop on the column of index t
\* is reorderColumns(current board, s, t) if s differs from t, and changes
\* neither columns, order fields nor the stored blob if s equals t.
ReorderDropOnlyIfMoved ==
  ColumnDragDrop =>
    LET s == last.dragState.sourceIndex
        t == DropIndex
        m == reorderColumns([Before EXCEPT !.writes = last.writes], last.currentBoardId, s, t)
    IN IF s # t
       THEN last.saves = 1 /\ boards = m.boards /\ blob = m.blob
       ELSE last.saves = 0 /\ boards = last.boards /\ blob = last.blob

\* A column was dropped on itself after an earlier drop had moved columns
\* and written the blob.
ReorderDropOnlyIfMovedWitness ==
  /\ ColumnDragDrop
  /\ last.dragState.sourceIndex = DropIndex
  /\ blob.present
  /\ boards # <<>>
  /\ boards[1].columns[1].title # <<"To Do">>

\* A column was dropped on another one and the two changed places.
ColumnMoved ==
  /\ ColumnDragDrop
  /\ last.dragState.sourceIndex = 0
  /\ DropIndex = 2
  /\ boards[1].columns[3].title = <<"To Do">>
  /\ last.boards[1].columns[1].title = <<"To Do">>

\* C23: a dragstart on a card, handled by the card and then by its column,
\* records a project drag with the card's project id and column id, and no
\* column drag: the source index stays as it was, the source id is the card's.
CardDragIsProjectDrag ==
  last.op = "cardDragStart" =>
    /\ dragState.type = "project"
    /\ dragState.sourceId = last.args[1]
    /\ dragState.sourceColumnId = last.args[2]
    /\ dragState.sourceIndex = last.dragState.sourceIndex

\* A card of the second column was picked up with no drag recorded before.
CardDragIsProjectDragWitness ==
  /\ last.op = "cardDragStart"
  /\ last.args[3] = 1
  /\ last.dragState = NoDrag
  /\ dragState.type = "project"
  /\ dragState.sourceIndex = Null

----------------------------------------------------------------------------
(* updateProject: one activity for each field changed *)

TrackedFields == {"projectName", "projectId", "description"}

ActionOf(f) ==
  CASE f = "projectName" -> "name_changed"
    [] f = "projectId" -> "id_changed"
    [] f = "description" -> "description_updated"

\* The last handler was updateProject on a project that exists.
UpdatedFound ==
  /\ last.op = "updateProject"
  /\ HasProject(last.boards, last.args[1], last.args[2], last.args[3])

UpdatedBefore == Project(last.boards, last.args[1], last.args[2], last.args[3])
UpdatedAfter == Project(boards, last.args[1], last.args[2], last.args[3])
UpdatedWith == last.args[4]

\* The activities the last updateProject put at the head of the log.
UpdatedAppended ==
  SubSeq(UpdatedAfter.activityLog, 1,
         Len(UpdatedAfter.activityLog) - Len(UpdatedBefore.activityLog))

\* The log of the last updateProject is right for the set of fields given: one
\* activity for each of them with the value before and the value supplied, the
\* older log below them, and the project the merge of the old one and the fields.
UpdateLogged(fields) ==
  /\ IsSuffix(UpdatedBefore.activityLog, UpdatedAfter.activityLog)
  /\ Len(UpdatedAppended) = Cardinality(fields)
  /\ {<<UpdatedAppended[i].action, UpdatedAppended[i].oldValue, UpdatedAppended[i].newValue>> :
        i \in 1..Len(UpdatedAppended)}
       = {<<ActionOf(f), StrValue(UpdatedBefore[f]), StrValue(UpdatedWith[f])>> : f \in fields}
  /\ [UpdatedAfter EXCEPT !.activityLog = UpdatedBefore.activityLog]
       = ObjectAssign(UpdatedBefore, UpdatedWith)

\* C24: updateProject on an existing project appends one activity for each of
\* projectName, projectId, description that is present in the fields given and
\* differs from the project's value, with the old value and the supplied one,
\* and the project afterwards is the shallow merge of the old one and the fields.
UpdateLogsEachChangedField ==
  UpdatedFound =>
    UpdateLogged({f \in TrackedFields :
                    Has(UpdatedWith, f) /\ UpdatedWith[f] # UpdatedBefore[f]})

\* What the code does: a name or display id given as the empty string counts
\* as not given when the activities are logged, and is merged all the same.
UpdateLogsEachTruthyChange ==
  UpdatedFound =>
    UpdateLogged({f \in TrackedFields :
                    /\ Has(UpdatedWith, f)
                    /\ UpdatedWith[f] # UpdatedBefore[f]
                    /\ (f = "description" \/ UpdatedWith[f] # <<>>)})

\* All three fields were changed in one call.
UpdatedThreeFields ==
  /\ UpdatedFound
  /\ Len(UpdatedAppended) = 3

----------------------------------------------------------------------------
(* Links and comments of a project, and the activities they log *)

\* The project whose modal is open in this part: the first one of the board.
LnkProjects == AllProjects(boards)
LnkBoard == boards[1].id
LnkColumn == boards[1].columns[1].id
LnkProject == boards[1].columns[1].projects[1]

LnkCreateBoard ==
  /\ clock < MaxLinkOps
  /\ boards = <<>>
  /\ createBoardAct(<<"B">>, <<"proj">>, <<>>, TRUE)

LnkCreateProject ==
  /\ clock < MaxLinkOps
  /\ boards # <<>>
  /\ LnkProjects = <<>>
  /\ createProjectAct(LnkBoard, LnkColumn, TRUE)

\* "Add Link" of the project modal, with a url and a title typed in.
LnkAddLink ==
  /\ clock < MaxLinkOps
  /\ LnkProjects # <<>>
  /\ \E in \in {<<<<"https://a">>, <<"a">>>>, <<<<"https://b">>, <<"b">>>>} :
       addLinkAct(LnkBoard, LnkColumn, LnkProject.id, in[1], in[2], TRUE)

LnkUpdateLink ==
  /\ clock < MaxLinkOps
  /\ LnkProjects # <<>>
  /\ \E l \in IdsOf(LnkProject.links) : \E in \in LinkInputs :
       updateLinkAct(LnkBoard, LnkColumn, LnkProject.id, l, in[1], in[2], TRUE)

LnkDeleteLink ==
  /\ clock < MaxLinkOps
  /\ LnkProjects # <<>>
  /\ \E l \in IdsOf(LnkProject.links) : \E w \in BOOLEAN :
       deleteLinkAct(LnkBoard, LnkColumn, LnkProject.id, l, w)

LnkAddComment ==
  /\ clock < MaxLinkOps
  /\ LnkProjects # <<>>
  /\ \E text \in {<<"note">>, <<"more">>} :
       addCommentAct(LnkBoard, LnkColumn, LnkProject.id, text, TRUE)

LnkUpdateComment ==
  /\ clock < MaxLinkOps
  /\ LnkProjects # <<>>
  /\ \E k \in IdsOf(LnkProject.comments) : \E text \in {<<"note">>, <<"edited">>} :
       updateCommentAct(LnkBoard, LnkColumn, LnkProject.id, k, text, TRUE)

LnkDeleteComment ==
  /\ clock < MaxLinkOps
  /\ LnkProjects # <<>>
  /\ \E k \in IdsOf(LnkProject.comments) : \E w \in BOOLEAN :
       deleteCommentAct(LnkBoard, LnkColumn, LnkProject.id, k, w)

NextLinks ==
  \/ LnkCreateBoard
  \/ LnkCreateProject
  \/ LnkAddLink
  \/ LnkUpdateLink
  \/ LnkDeleteLink
  \/ LnkAddComment
  \/ LnkUpdateComment
  \/ LnkDeleteComment

SpecLinks == Init /\ [][NextLinks]_vars

\* The project the last link or comment operation was on, before and after.
OwnerBefore == Project(last.boards, last.args[1], last.args[2], last.args[3])
OwnerAfter == Project(boards, last.args[1], last.args[2], last.args[3])

\* The last operation was one on a link or comment and found its target.
LinkOrCommentOp ==
  \/ /\ last.op \in {"addLink", "addComment"}
     /\ HasProject(last.boards, last.args[1], last.args[2], last.args[3])
  \/ /\ last.op \in {"updateLink", "deleteLink"}
     /\ HasLink(last.boards, last.args[1], last.args[2], last.args[3], last.args[4])
  \/ /\ last.op \in {"updateComment", "deleteComment"}
     /\ HasComment(last.boards, last.args[1], last.args[2], last.args[3], last.args[4])

LoggedOne ==
  /\ Len(OwnerAfter.activityLog) = Len(OwnerBefore.activityLog) + 1
  /\ Tail(OwnerAfter.activityLog) = OwnerBefore.activityLog

\* The link (comment) the last operation named, as it was before.
TargetLink == OwnerBefore.links[FindIndexById(OwnerBefore.links, last.args[4])]
TargetComment == OwnerBefore.comments[FindIndexById(OwnerBefore.comments, last.args[4])]

\* updateLink was given the url and title the link has.
SameLinkAgain ==
  /\ last.op = "updateLink"
  /\ last.args[5] = TargetLink.url
  /\ last.args[6] = TargetLink.title

\* C25: each addLink, updateLink, deleteLink, addComment, updateComment and
\* deleteComment call that finds its target appends exactly one activity to the
\* project's log, also when updateLink or updateComment is given the values
\* the link or comment already has.
LinkAndCommentOpsLogOnce ==
  LinkOrCommentOp => LoggedOne

\* What the code does: updateLink with the url and title the link has logs
\* nothing; every other call logs one activity.
LinkAndCommentOpsLogOnceIfChanged ==
  LinkOrCommentOp =>
    IF SameLinkAgain THEN OwnerAfter.activityLog = OwnerBefore.activityLog ELSE LoggedOne

\* updateComment with the text the comment has logged an activity.
SameCommentAgain ==
  /\ LinkOrCommentOp
  /\ last.op = "updateComment"
  /\ last.args[5] = TargetComment.text
  /\ OwnerAfter.activityLog[1].action = "comment_updated"

\* C26: deleteLink (deleteComment) on an existing link (comment) removes it from
\* the project's links (comments), keeps the others in their order, and puts at
\* the head of the log a 'link_deleted' ('comment_deleted') activity with the
\* link's {title, url} (the comment's text) as oldValue and null as newValue.
DeleteLogsContent ==
  /\ (LinkOrCommentOp /\ last.op = "deleteLink") =>
       /\ OwnerAfter.links = Others(OwnerBefore.links, last.args[4])
       /\ last.args[4] \notin IdsOf(OwnerAfter.links)
       /\ Len(OwnerAfter.links) = Len(OwnerBefore.links) - 1
       /\ OwnerAfter.comments = OwnerBefore.comments
       /\ OwnerAfter.activityLog[1].action = "link_deleted"
       /\ OwnerAfter.activityLog[1].oldValue = LinkValue(TargetLink.title, TargetLink.url)
       /\ OwnerAfter.activityLog[1].newValue = NoValue
  /\ (LinkOrCommentOp /\ last.op = "deleteComment") =>
       /\ OwnerAfter.comments = Others(OwnerBefore.comments, last.args[4])
       /\ last.args[4] \notin IdsOf(OwnerAfter.comments)
       /\ Len(OwnerAfter.comments) = Len(OwnerBefore.comments) - 1
       /\ OwnerAfter.links = OwnerBefore.links
       /\ OwnerAfter.activityLog[1].action = "comment_deleted"
       /\ OwnerAfter.activityLog[1].oldValue = StrValue(TargetComment.text)
       /\ OwnerAfter.activityLog[1].newValue = NoValue

\* The middle one of three links, not the same link as the first, was deleted.
DeleteLogsContentWitness ==
  /\ LinkOrCommentOp
  /\ last.op = "deleteLink"
  /\ Len(OwnerBefore.links) = 3
  /\ OwnerBefore.links[2].id = last.args[4]
  /\ OwnerBefore.links[1].url # OwnerBefore.links[2].url
  /\ Len(OwnerAfter.links) = 2

\* The first of two comments was deleted.
DeletedFirstComment ==
  /\ LinkOrCommentOp
  /\ last.op = "deleteComment"
  /\ Len(OwnerBefore.comments) = 2
  /\ OwnerBefore.comments[1].id = last.args[4]
  /\ OwnerBefore.comments[1].text # OwnerBefore.comments[2].text

----------------------------------------------------------------------------
(* Columns that hold projects: deleteColumn and reorderColumns, any index *)

\* reorderColumns has left a hole in a board's columns: the forEach that follows
\* its splices raised there, and so does every later handler that reads the columns.
Holed == \E bi \in 1..Len(boards) : \E ci \in 1..Len(boards[bi].columns) :
           boards[bi].columns[ci] = Undefined

RorCreateBoard ==
  /\ clock < MaxReorderOps
  /\ boards = <<>>
  /\ createBoardAct(<<"B">>, <<"proj">>, <<>>, TRUE)

RorCreateColumn ==
  /\ clock < MaxReorderOps
  /\ ~Holed
  /\ \E b \in BoardIds : createColumnAct(b, <<"Review">>, TRUE)

RorCreateProject ==
  /\ clock < MaxReorderOps
  /\ ~Holed
  /\ \E b \in BoardIds : \E c \in ColumnIds(b) : createProjectAct(b, c, TRUE)

RorDeleteColumn ==
  /\ clock < MaxReorderOps
  /\ ~Holed
  /\ \E b \in BoardIds : \E c \in ColumnIds(b) : \E w \in BOOLEAN : deleteColumnAct(b, c, w)

\* reorderColumns with any two integers from one below the first index to one
\* above the last.
RorReorderColumns ==
  /\ clock < MaxReorderOps
  /\ ~Holed
  /\ \E b \in BoardIds : \E f, t \in (-2)..(ColumnCount(b) + 1) : \E w \in BOOLEAN :
       reorderColumnsAct(b, f, t, w)

NextReorder ==
  \/ RorCreateBoard
  \/ RorCreateColumn
  \/ RorCreateProject
  \/ RorDeleteColumn
  \/ RorReorderColumns

SpecReorder == Init /\ [][NextReorder]_vars

\* The columns of the board the last operation named, before and after.
ColumnsBefore == Board(last.boards, last.args[1]).columns
ColumnsAfter == Board(boards, last.args[1]).columns

\* Columns without their order fields.
Unordered(columns) == [i \in 1..Len(columns) |-> [columns[i] EXCEPT !.order = 0]]

\* C27: deleteColumn on an existing column removes that column and all its
\* projects, none of which remains anywhere in the store, keeps the other
\* columns in their order and leaves their projects as they were.
DeleteColumnTakesProjects ==
  (last.op = "deleteColumn" /\ HasColumn(last.boards, last.args[1], last.args[2])) =>
    LET gone == Column(last.boards, last.args[1], last.args[2]) IN
    /\ Unordered(ColumnsAfter) = Unordered(Others(ColumnsBefore, last.args[2]))
    /\ Len(ColumnsAfter) = Len(ColumnsBefore) - 1
    /\ IdsOf(gone.projects) \cap IdsOf(AllProjects(boards)) = {}
    /\ IdsOf(AllProjects(boards)) = IdsOf(AllProjects(last.boards)) \ IdsOf(gone.projects)

\* The second of three columns was deleted; it and the third held projects.
DeleteColumnTakesProjectsWitness ==
  /\ last.op = "deleteColumn"
  /\ HasColumn(last.boards, last.args[1], last.args[2])
  /\ Len(ColumnsBefore) = 3
  /\ ColumnsBefore[2].id = last.args[2]
  /\ ColumnsBefore[2].projects # <<>>
  /\ ColumnsBefore[3].projects # <<>>
  /\ Len(ColumnsAfter) = 2

\* The last operation was reorderColumns on a board that exists.
Reordered == last.op = "reorderColumns" /\ HasBoard(last.boards, last.args[1])
FromIndex == last.args[2]
ToIndex == last.args[3]
InRange(i) == 0 <= i /\ i < Len(ColumnsBefore)

\* C28: with both indices within the board's columns, reorderColumns puts the
\* column that was at fromIndex at toIndex, keeps the order of the other
\* columns, keeps every column and its projects, and changes nothing when the
\* indices are equal.
ReorderPlacesColumn ==
  (Reordered /\ InRange(FromIndex) /\ InRange(ToIndex)) =>
    LET moved == ColumnsBefore[FromIndex + 1] IN
    /\ ~last.threw
    /\ Len(ColumnsAfter) = Len(ColumnsBefore)
    /\ Unordered(ColumnsAfter)[ToIndex + 1] = Unordered(<<moved>>)[1]
    /\ Unordered(Others(ColumnsAfter, moved.id)) = Unordered(Others(ColumnsBefore, moved.id))
    /\ FromIndex = ToIndex => boards = last.boards

\* The first of four columns went to the third place; columns held projects.
ReorderPlacesColumnWitness ==
  /\ Reordered
  /\ Len(ColumnsBefore) = 4
  /\ FromIndex = 0
  /\ ToIndex = 2
  /\ ColumnsBefore[1].projects # <<>>
  /\ ColumnsAfter[3].id = ColumnsBefore[1].id

\* A column was put where it was, on a board whose columns had been moved.
ReorderedInPlace ==
  /\ Reordered
  /\ FromIndex = 1
  /\ ToIndex = 1
  /\ ColumnsBefore[1].title # <<"To Do">>

\* The columns after are those before in some order, each numbered by its index.
IsPermutation ==
  /\ Len(ColumnsAfter) = Len(ColumnsBefore)
  /\ \A i \in 1..Len(ColumnsAfter) : ColumnsAfter[i] # Undefined
  /\ \A i \in 1..Len(ColumnsAfter) : ColumnsAfter[i].order = i - 1
  /\ \A i \in 1..Len(ColumnsBefore) :
       \E j \in 1..Len(ColumnsAfter) : Unordered(ColumnsAfter)[j] = Unordered(ColumnsBefore)[i]

\* C29: for an existing board and any two integers, in or out of 0..n-1,
\* reorderColumns completes without error and the columns afterwards are a
\* permutation of those before, each with its order field equal to its index.
ReorderIsTotal ==
  Reordered => ~last.threw /\ IsPermutation

\* What the code does: that holds when the board has columns and fromIndex is
\* below their number, whatever toIndex is; otherwise splice removes nothing and
\* the undefined it returns is inserted, on which the renumbering raises.
ReorderIsTotalBelowLength ==
  Reordered =>
    IF ColumnsBefore # <<>> /\ FromIndex < Len(ColumnsBefore)
    THEN ~last.threw /\ IsPermutation
    ELSE /\ last.threw
         /\ Len(ColumnsAfter) = Len(ColumnsBefore) + 1
         /\ \E i \in 1..Len(ColumnsAfter) : ColumnsAfter[i] = Undefined
         /\ blob = last.blob

\* A negative fromIndex and a toIndex beyond the end: the last column but one
\* went to the end.
ReorderedOutOfRange ==
  /\ Reordered
  /\ FromIndex = -2
  /\ ToIndex = Len(ColumnsBefore) + 1
  /\ ColumnsAfter[Len(ColumnsAfter)].id = ColumnsBefore[Len(ColumnsBefore) - 1].id

----------------------------------------------------------------------------
(* Loading the stored blob at startup *)

\* What storage can hold when the page opens: nothing, the blob of an earlier
\* session, that blob without a currentBoardId or with a stale one, a blob
\* without boards, or something that is not a blob of this program.
StoredItems ==
  {NoBlob, EarlierSession.blob,
   [EarlierSession.blob EXCEPT !.currentBoardId = UndefinedId],
   [EarlierSession.blob EXCEPT !.currentBoardId = MissingId],
   [EarlierSession.blob EXCEPT !.boards = <<>>, !.currentBoardId = Null]}
    \cup MalformedBlobs

InitLoad ==
  /\ boards = <<>>
  /\ currentBoardId = Null
  /\ ids = EarlierSession.ids
  /\ clock = 0
  /\ currentContext = NoContext
  /\ storageAvailable = FALSE
  /\ started = FALSE
  /\ timer = FALSE
  /\ dragState = NoDrag
  /\ blob \in StoredItems
  /\ lastBackupTime = Null
  /\ file = NoFile
  /\ last = [op |-> "load", args |-> <<>>, boards |-> <<>>, currentBoardId |-> Null,
             blob |-> blob, saves |-> 0, failed |-> 0, asked |-> FALSE, threw |-> FALSE,
             writes |-> TRUE]
  /\ field = <<>>
  /\ escaped = NotEscaped

LodStartup ==
  /\ ~started
  /\ clock < MaxLoadOps
  /\ \E probe \in BOOLEAN : DOMContentLoadedAct(probe)

LodCreateBoard ==
  /\ started /\ clock < MaxLoadOps
  /\ Len(boards) < MaxBoards
  /\ \E w \in BOOLEAN : createBoardAct(<<"B">>, <<"proj">>, <<>>, w)

\* The selector holds the placeholder option, of value "", and the boards.
LodSelectBoard ==
  /\ started /\ clock < MaxLoadOps
  /\ \E value \in BoardIds \cup {EmptyId} : \E w \in BOOLEAN : selectBoardAct(value, w)

LodDeleteBoard ==
  /\ started /\ clock < MaxLoadOps
  /\ \E b \in BoardIds : \E w \in BOOLEAN : deleteBoardAct(b, w)

LodPageLoad ==
  /\ started /\ clock < MaxLoadOps
  /\ pageLoadAct

NextLoad ==
  \/ LodStartup
  \/ LodCreateBoard
  \/ LodSelectBoard
  \/ LodDeleteBoard
  \/ LodPageLoad

SpecLoad == InitLoad /\ [][NextLoad]_vars

\* loadData as the last startup ran it: on the state of the page just opened,
\* with the result of the probe.
StartedUp == last.op = "DOMContentLoaded"
LoadedState == loadData([Before EXCEPT !.storageAvailable = last.args[1]])

\* The stored item is one loadData does not take: storage is unavailable, or
\* the item is absent, unparsable or without a boards array.
NothingToLoad == ~last.args[1] \/ ~last.blob.present \/ last.blob \in MalformedBlobs

\* The startup load raised nothing, left the stored item alone, and what it put
\* in the store is the boards the startup went on with.
LoadCompleted ==
  /\ ~last.threw
  /\ blob = last.blob
  /\ boards = LoadedState.boards

LoadedMalformed ==
  /\ StartedUp
  /\ last.args[1]
  /\ last.blob \in MalformedBlobs
  /\ boards = <<>>

\* A startup that loaded a blob whose current board is its second one.
LoadedSecondBoard ==
  /\ StartedUp
  /\ ~NothingToLoad
  /\ Len(boards) = 2
  /\ LoadedState.currentBoardId = boards[2].id

----------------------------------------------------------------------------
(* What an import leaves in storage *)

\* C31: after a confirmed import with storage available and the write
\* succeeding, the stored blob's boards and currentBoardId are the boards and
\* currentBoardId in memory, also when the snapshot's currentBoardId resolves to
\* no board and the first board became the current one.
ImportPersistsResult ==
  (ImportWentThrough /\ storageAvailable /\ last.writes) =>
    /\ blob.present
    /\ blob.boards = JsonBoards(boards)
    /\ blob.currentBoardId = currentBoardId

\* What the code does: the blob holds the boards in memory and the snapshot's
\* currentBoardId, which is the one in memory unless the fallback replaced it.
ImportPersistsSnapshotId ==
  (ImportWentThrough /\ storageAvailable /\ last.writes) =>
    /\ blob.present
    /\ blob.boards = JsonBoards(boards)
    /\ blob.currentBoardId = ImportedDoc.currentBoardId
    /\ (FindIndexById(boards, ImportedDoc.currentBoardId) # 0
          => blob.currentBoardId = currentBoardId)

\* An import whose snapshot named one of its boards, written to storage.
ImportPersistedResolved ==
  /\ ImportWentThrough /\ storageAvailable /\ last.writes
  /\ Len(boards) = 2
  /\ ImportedDoc.currentBoardId = boards[2].id
  /\ blob.currentBoardId = currentBoardId


----------------------------------------------------------------------------
(* The auto-save tick among mutations and failed writes *)

TckCreateBoard ==
  /\ clock < MaxTickOps
  /\ Len(boards) < MaxBoards
  /\ \E w \in BOOLEAN : createBoardAct(<<"B">>, <<"proj">>, <<>>, w)

TckCreateProject ==
  /\ clock < MaxTickOps
  /\ \E bi \in 1..Len(boards) : \E w \in BOOLEAN :
       createProjectAct(boards[bi].id, boards[bi].columns[1].id, w)

TckDeleteBoard ==
  /\ clock < MaxTickOps
  /\ \E b \in BoardIds : \E w \in BOOLEAN : deleteBoardAct(b, w)

TckProjectDragStart ==
  /\ clock < MaxTickOps
  /\ \E c \in ColumnIds(currentBoardId) :
       \E p \in ProjectIdsOf(boards, currentBoardId, c) : handleProjectDragStartAct(p, c)

\* The interval was set at startup if the probe succeeded.
TckAutoSave ==
  /\ clock < MaxTickOps
  /\ timer
  /\ \E w \in BOOLEAN : autoSaveAct(w)

NextTick ==
  \/ TckCreateBoard
  \/ TckCreateProject
  \/ TckDeleteBoard
  \/ TckProjectDragStart
  \/ TckAutoSave

SpecTick == Init /\ [][NextTick]_vars

\* The last event was a tick of the auto-save timer while storage took writes.
Ticked == last.op = "autoSave" /\ storageAvailable /\ last.writes

\* The tick changed neither the store nor the drag state.
TickKeepsMemory ==
  /\ boards = last.boards
  /\ currentBoardId = last.currentBoardId
  /\ dragState = last.dragState

\* The blob holds the store; storage that was never written holds the empty one.
BlobIsStore ==
  IF blob.present
  THEN blob.boards = JsonBoards(boards) /\ blob.currentBoardId = currentBoardId
  ELSE boards = <<>> /\ currentBoardId = Null

\* C32: whatever mutations, failed writes and ticks came before, a tick of the
\* auto-save timer while storage accepts writes leaves the blob's boards and
\* currentBoardId equal to the store in memory, the empty store included, and
\* changes neither the store nor the drag state.
TickOverwritesBlob ==
  Ticked => BlobIsStore /\ TickKeepsMemory

\* What the code does: the tick writes only a store that holds boards; with
\* an empty store the blob stays as it was.
TickOverwritesBlobIfBoards ==
  Ticked =>
    /\ TickKeepsMemory
    /\ IF boards # <<>> THEN blob.present /\ BlobIsStore /\ last.saves = 1
       ELSE blob = last.blob /\ last.saves = 0

\* A tick repaired a blob that a failed write had left behind the store, while
\* a card was being dragged.
TickCaughtUp ==
  /\ Ticked
  /\ boards # <<>>
  /\ last.blob.present
  /\ last.blob.boards # JsonBoards(boards)
  /\ dragState.type = "project"
  /\ BlobIsStore

----------------------------------------------------------------------------
(* The link form of the project modal *)

Space == " "

\* String.prototype.trim, on text whose only white space is the space.
RECURSIVE TrimStart(_)
TrimStart(s) == IF s # <<>> /\ Head(s) = Space THEN TrimStart(Tail(s)) ELSE s
RECURSIVE TrimEnd(_)
TrimEnd(s) ==
  IF s # <<>> /\ s[Len(s)] = Space THEN TrimEnd(SubSeq(s, 1, Len(s) - 1)) ELSE s
trim(s) == TrimEnd(TrimStart(s))

\* new URL(url) returns for an absolute URL and throws for anything else: text
\* without a scheme, or with a space left inside after trimming.
AbsoluteUrls == {"https://a", "https://b"}
ParsesAsUrl(url) == Len(url) = 1 /\ url[1] \in AbsoluteUrls

\* currentContext.linkId as the handler tests it: set and not null.
EditedLink(m) ==
  IF Has(m.currentContext, "linkId") THEN m.currentContext.linkId ELSE Null

\* The "Add Link" button of the project modal.
addLinkBtnClick(m) ==
  [m EXCEPT !.currentContext = ObjectAssign(@, [linkId |-> Null])]

\* editLink: the pencil of a link of the project whose modal is open.  Reading
\* .columns of no board, and so on down, throws.
editLink(m, linkId) ==
  LET ctx == m.currentContext
      bi == FindIndexById(m.boards, ctx.boardId) IN
  IF bi = 0 THEN [m EXCEPT !.threw = TRUE] ELSE
  LET ci == FindIndexById(m.boards[bi].columns, ctx.columnId) IN
  IF ci = 0 THEN [m EXCEPT !.threw = TRUE] ELSE
  LET pi == FindIndexById(m.boards[bi].columns[ci].projects, ctx.projectId) IN
  IF pi = 0 THEN [m EXCEPT !.threw = TRUE] ELSE
  IF FindIndexById(m.boards[bi].columns[ci].projects[pi].links, linkId) = 0 THEN m
  ELSE [m EXCEPT !.currentContext = ObjectAssign(@, [linkId |-> linkId])]

\* The click listener of confirmAddLink that does not try the url.
ConfirmAddLinkUntested(m, linkTitle, linkUrl) ==
  LET title == trim(linkTitle)
      url == trim(linkUrl)
      ctx == m.currentContext
  IN IF title = <<>> \/ url = <<>> THEN m
     ELSE IF EditedLink(m) # Null
     THEN updateLink(m, ctx.boardId, ctx.columnId, ctx.projectId, EditedLink(m), url, title)
     ELSE addLink(m, ctx.boardId, ctx.columnId, ctx.projectId, url, title)

\* The click listener of confirmAddLink; linkTitle and linkUrl are the values
\* of the form's two fields.
confirmAddLink(m, linkTitle, linkUrl) ==
  LET title == trim(linkTitle)
      url == trim(linkUrl)
      ctx == m.currentContext
  IN IF title = <<>> \/ url = <<>> THEN m
     ELSE IF ~ParsesAsUrl(url) THEN m
     ELSE IF EditedLink(m) # Null
     THEN updateLink(m, ctx.boardId, ctx.columnId, ctx.projectId, EditedLink(m), url, title)
     ELSE addLink(m, ctx.boardId, ctx.columnId, ctx.projectId, url, title)

addLinkBtnClickAct == Commit(addLinkBtnClick(Machine(TRUE)), "addLinkBtnClick", <<>>)

editLinkAct(linkId) == Commit(editLink(Machine(TRUE), linkId), "editLink", <<linkId>>)

confirmAddLinkAct(linkTitle, linkUrl, w) ==
  Commit(confirmAddLink(Machine(w), linkTitle, linkUrl), "confirmAddLink",
         <<linkTitle, linkUrl>>)

\* What the user can have typed in the two fields.
TitleFields == {<<>>, <<Space>>, <<"a">>, <<Space, "b">>}
UrlFields ==
  {<<>>, <<Space>>, <<"a">>, <<"https://a">>, <<Space, "https://b", Space>>,
   <<"https://a", Space, "b">>}

FrmCreateBoard ==
  /\ clock < MaxFormOps
  /\ boards = <<>>
  /\ createBoardAct(<<"B">>, <<"proj">>, <<>>, TRUE)

\* "+ Add Project": creates the project and opens its modal.
FrmCreateProject ==
  /\ clock < MaxFormOps
  /\ boards # <<>>
  /\ AllProjects(boards) = <<>>
  /\ createProjectAct(boards[1].id, boards[1].columns[1].id, TRUE)

FrmAddLinkBtn ==
  /\ clock < MaxFormOps
  /\ currentContext.projectId # Null
  /\ addLinkBtnClickAct

FrmEditLink ==
  /\ clock < MaxFormOps
  /\ currentContext.projectId # Null
  /\ \E l \in IdsOf(AllLinks(AllProjects(boards))) : editLinkAct(l)

FrmConfirmAddLink ==
  /\ clock < MaxFormOps
  /\ currentContext.projectId # Null
  /\ \E linkTitle \in TitleFields : \E linkUrl \in UrlFields : \E w \in BOOLEAN :
       confirmAddLinkAct(linkTitle, linkUrl, w)

NextForm ==
  \/ FrmCreateBoard
  \/ FrmCreateProject
  \/ FrmAddLinkBtn
  \/ FrmEditLink
  \/ FrmConfirmAddLink

SpecForm == Init /\ [][NextForm]_vars

\* The last event was a submit of the link form that must be turned down: the
\* title or the url is empty once trimmed, or the url fails validation.
TurnedDown ==
  /\ last.op = "confirmAddLink"
  /\ \/ trim(last.args[1]) = <<>>
     \/ trim(last.args[2]) = <<>>
     \/ ~ParsesAsUrl(trim(last.args[2]))

\* C33: a submit of the link form with an empty title or url, or with a url
\* that fails validation, records nothing, on the add path and on the edit
\* path: the store, with the project's links and activity log, and the stored
\* blob are as they were.
InvalidLinkRecordsNothing ==
  TurnedDown => boards = last.boards /\ blob = last.blob /\ last.saves = 0

\* An edit of a stored link was submitted with a url that has no scheme.
InvalidLinkRecordsNothingWitness ==
  /\ TurnedDown
  /\ Has(currentContext, "linkId")
  /\ currentContext.linkId # Null
  /\ trim(last.args[1]) # <<>>
  /\ trim(last.args[2]) = <<"a">>
  /\ blob.present
  /\ AllLinks(AllProjects(boards)) # <<>>

\* The add path, turned down for a space inside the url.
InvalidLinkNotAdded ==
  /\ TurnedDown
  /\ Has(currentContext, "linkId")
  /\ currentContext.linkId = Null
  /\ trim(last.args[1]) # <<>>
  /\ Len(trim(last.args[2])) = 3

\* A submit that passed: the link was added with the trimmed values.
ValidLinkAdded ==
  /\ last.op = "confirmAddLink"
  /\ last.args[2] = <<Space, "https://b", Space>>
  /\ AllLinks(AllProjects(boards)) # <<>>
  /\ AllLinks(AllProjects(boards))[1].url = <<"https://b">>

----------------------------------------------------------------------------
(* The drag events that move nothing: dragover, dragleave, dragend *)

\* The dragover listener of a column body: marks the body during a project
\* drag (a class of the element), and assigns neither state nor dragState.
handleColumnDragOver(m) == m

\* The dragleave listener of a column body: takes the mark away.
handleColumnDragLeave(m) == m

\* The dragover listener of a column: accepts the drop during a column drag.
handleColumnReorder(m) == m

\* dragover on a column body: the body's listener, then the column's.
bodyDragOverAct ==
  Commit(handleColumnReorder(handleColumnDragOver(Machine(TRUE))), "bodyDragOver", <<>>)

columnDragOverAct == Commit(handleColumnReorder(Machine(TRUE)), "columnDragOver", <<>>)

bodyDragLeaveAct == Commit(handleColumnDragLeave(Machine(TRUE)), "bodyDragLeave", <<>>)

DevBodyDragOver ==
  /\ clock < MaxColumnDragOps
  /\ ShownColumns # <<>>
  /\ bodyDragOverAct

DevColumnDragOver ==
  /\ clock < MaxColumnDragOps
  /\ ShownColumns # <<>>
  /\ columnDragOverAct

DevBodyDragLeave ==
  /\ clock < MaxColumnDragOps
  /\ ShownColumns # <<>>
  /\ bodyDragLeaveAct

NextDragEvents ==
  \/ CdgCreateBoard
  \/ CdgCreateProject
  \/ CdgCardDragStart
  \/ CdgColumnDragStart
  \/ CdgBodyDrop
  \/ CdgColumnDrop
  \/ CdgCardDragEnd
  \/ CdgColumnDragEnd
  \/ DevBodyDragOver
  \/ DevColumnDragOver
  \/ DevBodyDragLeave

SpecDragEvents == Init /\ [][NextDragEvents]_vars

StoreKept ==
  /\ boards = last.boards
  /\ currentBoardId = last.currentBoardId
  /\ blob = last.blob

\* C34: dragover and dragleave change neither the store nor the drag recorded;
\* dragend leaves no drag type, source id, source column id or source index,
\* whether a drop came before it or not, and does not change the store.
DragEventsKeepStore ==
  /\ last.op \in {"bodyDragOver", "columnDragOver", "bodyDragLeave"} =>
       StoreKept /\ dragState = last.dragState
  /\ last.op \in {"cardDragEnd", "handleColumnDragEnd"} =>
       StoreKept /\ dragState = NoDrag

\* The dragend of a card that a drop had moved to another column.
DragEventsKeepStoreWitness ==
  /\ last.op = "cardDragEnd"
  /\ last.dragState.type = "project"
  /\ last.dragState.sourceColumnId # Null
  /\ \E i \in 1..Len(AllProjects(boards)) :
       /\ AllProjects(boards)[i].id = last.dragState.sourceId
       /\ AllProjects(boards)[i].activityLog[1].action = "moved"
  /\ dragState = NoDrag

\* The dragend of a column that was not dropped anywhere.
ColumnDragAbandoned ==
  /\ last.op = "handleColumnDragEnd"
  /\ last.dragState.sourceIndex = 2
  /\ boards[1].columns[3].title = <<"Done">>

\* A dragover during a project drag.
DraggedOver ==
  /\ last.op = "bodyDragOver"
  /\ dragState.type = "project"

----------------------------------------------------------------------------
(* Conservation of projects *)

ProjectIdsIn(bs) == IdsOf(AllProjects(bs))

RemovingOps == {"deleteProject", "deleteColumn", "deleteBoard", "clearAllData", "importFromJSON",
                "pageLoad"}

\* C35: each project id occurs once, in one column; moveProject, with any
\* index, and reorderColumns leave the projects of the store as they are; and
\* only deleteProject, deleteColumn, deleteBoard, clear-all and import remove
\* a project.  (Stated for the states in which every column slot holds a column.)
ProjectsConserved ==
  ~Holed =>
    /\ Cardinality(ProjectIdsIn(boards)) = Len(AllProjects(boards))
    /\ (last.op \in {"moveProject", "reorderColumns", "bodyDrop", "handleColumnDrop",
                     "handleColumnReorderDrop"}
          => ProjectIdsIn(boards) = ProjectIdsIn(last.boards))
    /\ (last.op \notin RemovingOps /\ last.op \notin {"startup", "load", "DOMContentLoaded"}
          => ProjectIdsIn(last.boards) \subseteq ProjectIdsIn(boards))

\* A move to an index beyond the end of the destination kept every project.
MovedBeyondEnd ==
  /\ last.op = "moveProject"
  /\ MovedFound
  /\ last.args[5] > Len(AllProjects(boards))
  /\ ProjectIdsIn(boards) = ProjectIdsIn(last.boards)
  /\ boards # last.boards

----------------------------------------------------------------------------
(* Column, project, link and comment operations on one of two boards *)

FraProjects(b) == BoardProjects(Board(boards, b).columns)

\* The operations are called for the first two columns of a board.
FraColumns(b) ==
  LET columns == Board(boards, b).columns
  IN {columns[i].id : i \in 1..(IF Len(columns) < 2 THEN Len(columns) ELSE 2)}

FraCreateBoard ==
  /\ clock < MaxFrameOps
  /\ Len(boards) < MaxBoards
  /\ createBoardAct(<<"B">>, <<"proj">>, <<>>, TRUE)

FraCreateColumn ==
  /\ clock < MaxFrameOps
  /\ \E b \in BoardIds : createColumnAct(b, <<"Later">>, TRUE)

FraUpdateColumn ==
  /\ clock < MaxFrameOps
  /\ \E b \in BoardIds : \E c \in FraColumns(b) :
       updateColumnAct(b, c, [title |-> <<"Renamed">>], TRUE)

FraDeleteColumn ==
  /\ clock < MaxFrameOps
  /\ \E b \in BoardIds : \E c \in FraColumns(b) : deleteColumnAct(b, c, TRUE)

FraReorderColumns ==
  /\ clock < MaxFrameOps
  /\ \E b \in BoardIds :
       /\ ColumnCount(b) > 0
       /\ \E from, to \in {0, ColumnCount(b) - 1} : reorderColumnsAct(b, from, to, TRUE)

FraCreateProject ==
  /\ clock < MaxFrameOps
  /\ \E b \in BoardIds : \E c \in FraColumns(b) : createProjectAct(b, c, TRUE)

FraUpdateProject ==
  /\ clock < MaxFrameOps
  /\ \E b \in BoardIds : \E c \in FraColumns(b) : \E p \in ProjectIdsOf(boards, b, c) :
       updateProjectAct(b, c, p, [projectName |-> <<"Renamed">>], TRUE)

FraDeleteProject ==
  /\ clock < MaxFrameOps
  /\ \E b \in BoardIds : \E c \in FraColumns(b) : \E p \in ProjectIdsOf(boards, b, c) :
       deleteProjectAct(b, c, p, TRUE)

FraMoveProject ==
  /\ clock < MaxFrameOps
  /\ \E b \in BoardIds : \E f, t \in FraColumns(b) : \E p \in ProjectIdsOf(boards, b, f) :
       \E i \in {0, 1} : moveProjectAct(b, f, t, p, i, TRUE)

FraAddLink ==
  /\ clock < MaxFrameOps
  /\ \E b \in BoardIds : \E c \in FraColumns(b) : \E p \in ProjectIdsOf(boards, b, c) :
       addLinkAct(b, c, p, <<"https://a">>, <<"a">>, TRUE)

FraUpdateLink ==
  /\ clock < MaxFrameOps
  /\ \E b \in BoardIds : \E c \in FraColumns(b) : \E p \in ProjectIdsOf(boards, b, c) :
       \E l \in IdsOf(Project(boards, b, c, p).links) :
         updateLinkAct(b, c, p, l, <<"https://b">>, <<"b">>, TRUE)

FraDeleteLink ==
  /\ clock < MaxFrameOps
  /\ \E b \in BoardIds : \E c \in FraColumns(b) : \E p \in ProjectIdsOf(boards, b, c) :
       \E l \in IdsOf(Project(boards, b, c, p).links) : deleteLinkAct(b, c, p, l, TRUE)

FraAddComment ==
  /\ clock < MaxFrameOps
  /\ \E b \in BoardIds : \E c \in FraColumns(b) : \E p \in ProjectIdsOf(boards, b, c) :
       addCommentAct(b, c, p, <<"note">>, TRUE)

FraUpdateComment ==
  /\ clock < MaxFrameOps
  /\ \E b \in BoardIds : \E c \in FraColumns(b) : \E p \in ProjectIdsOf(boards, b, c) :
       \E k \in IdsOf(Project(boards, b, c, p).comments) :
         updateCommentAct(b, c, p, k, <<"edited">>, TRUE)

FraDeleteComment ==
  /\ clock < MaxFrameOps
  /\ \E b \in BoardIds : \E c \in FraColumns(b) : \E p \in ProjectIdsOf(boards, b, c) :
       \E k \in IdsOf(Project(boards, b, c, p).comments) : deleteCommentAct(b, c, p, k, TRUE)

NextFrame ==
  \/ FraCreateBoard
  \/ FraCreateColumn
  \/ FraUpdateColumn
  \/ FraDeleteColumn
  \/ FraReorderColumns
  \/ FraCreateProject
  \/ FraUpdateProject
  \/ FraDeleteProject
  \/ FraMoveProject
  \/ FraAddLink
  \/ FraUpdateLink
  \/ FraDeleteLink
  \/ FraAddComment
  \/ FraUpdateComment
  \/ FraDeleteComment

SpecFrame == Init /\ [][NextFrame]_vars

ColumnLevelOps == {"createColumn", "updateColumn", "deleteColumn", "reorderColumns"}
ProjectLevelOps == {"createProject", "updateProject", "deleteProject", "moveProject",
                    "addLink", "updateLink", "deleteLink",
                    "addComment", "updateComment", "deleteComment"}

\* The project an operation was called for: none for createProject, the
\* fourth argument of moveProject, the third of the others.
CalledProject ==
  IF last.op = "createProject" THEN MissingId
  ELSE IF last.op = "moveProject" THEN last.args[4] ELSE last.args[3]

ProjectsSet(bs) == {AllProjects(bs)[i] : i \in 1..Len(AllProjects(bs))}

\* C36: a column, project, link or comment operation called with board id A
\* leaves every other board, the order of the board list and currentBoardId
\* as they were, and a project-level operation leaves every other project of
\* board A as it was.
OperationsKeepOthers ==
  last.op \in ColumnLevelOps \cup ProjectLevelOps =>
    /\ Len(boards) = Len(last.boards)
    /\ \A i \in 1..Len(last.boards) :
         /\ boards[i].id = last.boards[i].id
         /\ last.boards[i].id # last.args[1] => boards[i] = last.boards[i]
    /\ currentBoardId = last.currentBoardId
    /\ last.op \in ProjectLevelOps =>
         \A q \in ProjectsSet(last.boards) : q.id # CalledProject => q \in ProjectsSet(boards)

\* A project was deleted on the second board while the first board holds a
\* project and the same column holds another one.
OperationsKeepOthersWitness ==
  /\ last.op = "deleteProject"
  /\ Len(boards) = 2
  /\ last.args[1] = boards[2].id
  /\ boards # last.boards
  /\ FraProjects(boards[2].id) # <<>>
  /\ Len(AllProjects(boards)) + 1 = Len(AllProjects(last.boards))

\* A link was deleted on the board that is not the current one.
LinkDeletedOnOtherBoard ==
  /\ last.op = "deleteLink"
  /\ Len(boards) = 2
  /\ last.args[1] # currentBoardId
  /\ boards # last.boards

----------------------------------------------------------------------------
(* Display ids of the projects of a board *)

DspPrefixes == {<<"B">>, <<"A", "-", "1">>}

DspCreateBoard ==
  /\ clock < MaxDisplayOps
  /\ Len(boards) < MaxBoards
  /\ createBoardAct(<<"Board">>, <<"A">>, <<>>, TRUE)

DspUpdateBoard ==
  /\ clock < MaxDisplayOps
  /\ \E b \in BoardIds : \E prefix \in DspPrefixes :
       updateBoardAct(b, [projectIdPrefix |-> prefix], TRUE)

DspCreateColumn ==
  /\ clock < MaxDisplayOps
  /\ \E b \in BoardIds :
       /\ ColumnCount(b) < 3
       /\ createColumnAct(b, <<"Later">>, TRUE)

DspDeleteColumn ==
  /\ clock < MaxDisplayOps
  /\ \E b \in BoardIds : \E c \in FraColumns(b) : deleteColumnAct(b, c, TRUE)

DspReorderColumns ==
  /\ clock < MaxDisplayOps
  /\ \E b \in BoardIds :
       /\ ColumnCount(b) > 1
       /\ reorderColumnsAct(b, 0, ColumnCount(b) - 1, TRUE)

DspCreateProject ==
  /\ clock < MaxDisplayOps
  /\ \E b \in BoardIds : \E c \in FraColumns(b) : createProjectAct(b, c, TRUE)

DspDeleteProject ==
  /\ clock < MaxDisplayOps
  /\ \E b \in BoardIds : \E c \in FraColumns(b) : \E p \in ProjectIdsOf(boards, b, c) :
       deleteProjectAct(b, c, p, TRUE)

DspMoveProject ==
  /\ clock < MaxDisplayOps
  /\ \E b \in BoardIds : \E f, t \in FraColumns(b) : \E p \in ProjectIdsOf(boards, b, f) :
       /\ f # t
       /\ moveProjectAct(b, f, t, p, 0, TRUE)

NextDisplay ==
  \/ DspCreateBoard
  \/ DspUpdateBoard
  \/ DspCreateColumn
  \/ DspDeleteColumn
  \/ DspReorderColumns
  \/ DspCreateProject
  \/ DspDeleteProject
  \/ DspMoveProject

SpecDisplay == Init /\ [][NextDisplay]_vars

DisplayIds(projects) == {projects[i].projectId : i \in 1..Len(projects)}

\* C37: under createBoard, updateBoard, createColumn, deleteColumn,
\* reorderColumns, createProject, deleteProject and moveProject the display ids
\* of the projects of one board are pairwise distinct.
DisplayIdsDistinct ==
  \A bi \in 1..Len(boards) :
    LET projects == BoardProjects(boards[bi].columns)
    IN Cardinality(DisplayIds(projects)) = Len(projects)

\* A project was created on the only board, whose columns are the ones it was
\* created with, next to a project numbered 1, and took the number 2 although
\* more ids were drawn since that project, which was never moved, than one
\* creation draws: a project holding the highest suffix was created and
\* deleted in between.
DisplayIdsDistinctWitness ==
  /\ last.op = "createProject"
  /\ Len(boards) = 1
  /\ IdsOf(boards[1].columns) = {boards[1].id + i : i \in 1..3}
  /\ Len(AllProjects(boards)) = 2
  /\ Len(AllProjects(last.boards)) = 1
  /\ \E i \in 1..1 :
       LET old == AllProjects(last.boards)[1]
           new == CHOOSE q \in ProjectsSet(boards) : q.id # old.id
       IN /\ parseInt(TrailingDigits(new.projectId)) = <<2>>
          /\ parseInt(TrailingDigits(old.projectId)) = <<1>>
          /\ Len(old.activityLog) = 1
          /\ new.id > old.id + 2

\* The prefix of the board was changed between two creations.
CreatedUnderTwoPrefixes ==
  /\ last.op = "createProject"
  /\ \E bi \in 1..Len(boards) :
       LET projects == BoardProjects(boards[bi].columns)
       IN \E i, j \in 1..Len(projects) :
            /\ projects[i].projectId[1] = "A"
            /\ projects[j].projectId[1] = "B"

----------------------------------------------------------------------------
(* The current board under board operations, the selector, load and import *)

CurStartup ==
  /\ ~started
  /\ clock < MaxCurrentOps
  /\ \E probe \in BOOLEAN : DOMContentLoadedAct(probe)

CurCreateBoard ==
  /\ started /\ clock < MaxCurrentOps
  /\ Len(boards) < MaxBoards
  /\ createBoardAct(<<"B">>, <<"proj">>, <<>>, TRUE)

\* "Delete Board" of the board settings: the current board.
CurDeleteBoard ==
  /\ started /\ clock < MaxCurrentOps
  /\ \E b \in BoardIds : deleteBoardAct(b, TRUE)

CurClearAll ==
  /\ started /\ clock < MaxCurrentOps
  /\ \E first, second \in BOOLEAN : clearAllDataAct(first, second, TRUE)

\* A change of the selector: one of the boards, or the "Select Board" entry,
\* whose value is the empty string.
CurSelectBoard ==
  /\ started /\ clock < MaxCurrentOps
  /\ boards # <<>>
  /\ \E value \in (BoardIds \cup {EmptyId}) \ {currentBoardId} : selectBoardAct(value, TRUE)

CurExport ==
  /\ started /\ clock < MaxCurrentOps
  /\ boards # <<>>
  /\ exportToJSONAct(TRUE)

CurImport ==
  /\ started /\ clock < MaxCurrentOps
  /\ \E doc \in RestoreFiles : \E answer \in Answers : importFromJSONAct(doc, answer, TRUE)

CurPageLoad ==
  /\ started /\ clock < MaxCurrentOps
  /\ pageLoadAct

NextCurrent ==
  \/ CurStartup
  \/ CurCreateBoard
  \/ CurDeleteBoard
  \/ CurClearAll
  \/ CurSelectBoard
  \/ CurExport
  \/ CurImport
  \/ CurPageLoad

SpecCurrent == InitLoad /\ [][NextCurrent]_vars

CurrentResolved == currentBoardId = Null \/ currentBoardId \in BoardIds

\* C38: after startup, under createBoard, deleteBoard, clear-all, the selector,
\* load and import, currentBoardId is null or the id of a board of the store,
\* and null when the store holds no boards.
CurrentBoardResolves ==
  started => /\ CurrentResolved
             /\ boards = <<>> => currentBoardId = Null

\* The operations that set currentBoardId to a board or to null.
Resolving ==
  \/ last.op = "createBoard"
  \/ last.op = "clearAllData" /\ boards # last.boards
  \/ last.op = "deleteBoard" /\ last.args[1] = last.currentBoardId /\ boards # last.boards
  \/ last.op = "selectBoard" /\ last.args[1] \in BoardIds
  \/ last.op = "DOMContentLoaded" /\ boards # <<>>
  \/ last.op = "importFromJSON" /\ ImportWentThrough /\ boards # <<>>

\* What the code does: these operations leave currentBoardId resolved.
CurrentBoardResolvesAfter ==
  started /\ Resolving => /\ CurrentResolved
                          /\ boards = <<>> => currentBoardId = Null

\* The placeholder was chosen while the store holds boards.
PlaceholderChosen ==
  /\ last.op = "selectBoard"
  /\ last.args[1] = EmptyId
  /\ boards # <<>>
  /\ currentBoardId = EmptyId

\* An import left the store without boards and with the id of the snapshot.
ImportedStaleId ==
  /\ last.op = "importFromJSON"
  /\ boards = <<>>
  /\ last.boards # <<>>
  /\ currentBoardId = MissingId

\* The current board was deleted and the first remaining board took over.
DeletedCurrentBoard ==
  /\ last.op = "deleteBoard"
  /\ last.args[1] = last.currentBoardId
  /\ boards # <<>>
  /\ currentBoardId = boards[1].id

----------------------------------------------------------------------------
(* The two kinds of drag under a drop on a column body *)

\* The projects of each column, by column id.
ProjectsByColumn(bs) ==
  {<<AllColumns(bs)[i].id, AllColumns(bs)[i].projects>> : i \in 1..Len(AllColumns(bs))}

\* The columns of each board in sequence, with their order fields.
ColumnSequence(bs) ==
  [bi \in 1..Len(bs) |->
     [ci \in 1..Len(bs[bi].columns) |-> <<bs[bi].columns[ci].id, bs[bi].columns[ci].order>>]]

\* The projects of each column without the project p.
ProjectsByColumnWithout(bs, p) ==
  {<<AllColumns(bs)[i].id, SelectSeq(AllColumns(bs)[i].projects, LAMBDA q : q.id # p)>> :
     i \in 1..Len(AllColumns(bs))}

\* C39: a drop on a column body, which runs handleColumnDrop and then the
\* column's handleColumnReorderDrop, moves no project while a column drag is
\* active, and while a project drag is active it changes neither the column
\* sequence nor an order field and moves no project but the dragged one.
DragKindsApart ==
  last.op = "bodyDrop" =>
    /\ last.dragState.type = "column" =>
         ProjectsByColumn(boards) = ProjectsByColumn(last.boards)
    /\ last.dragState.type = "project" =>
         /\ ColumnSequence(boards) = ColumnSequence(last.boards)
         /\ ProjectsByColumnWithout(boards, last.dragState.sourceId)
              = ProjectsByColumnWithout(last.boards, last.dragState.sourceId)

\* A project drag ended with a drop on the body of another column, which holds
\* a project already, and the dragged project moved.
DragKindsApartWitness ==
  /\ last.op = "bodyDrop"
  /\ last.dragState.type = "project"
  /\ last.dragState.sourceColumnId # last.args[1]
  /\ last.args[2] # 0
  /\ ProjectsByColumn(boards) # ProjectsByColumn(last.boards)
  /\ Len(AllProjects(boards)) > 1

\* A column drag ended with a drop on the body of another column, and the
\* columns changed places while a project sits in one of them.
ColumnDroppedOnBody ==
  /\ last.op = "bodyDrop"
  /\ last.dragState.type = "column"
  /\ ColumnSequence(boards) # ColumnSequence(last.boards)
  /\ AllProjects(boards) # <<>>

----------------------------------------------------------------------------
(* The React variant of the board: createProject and deleteProject *)

\* The boards the App component starts with.
initialBoards ==
  << [id |-> 1, name |-> <<"My First Project">>, projectId |-> <<"PROJ">>,
      description |-> <<"This is your first project.">>,
      projectLinks |-> <<>>, projectComments |-> <<>>,
      columns |-> << [id |-> 1, title |-> <<"To Do">>, projects |-> <<>>],
                     [id |-> 2, title |-> <<"In Progress">>, projects |-> <<>>],
                     [id |-> 3, title |-> <<"Done">>, projects |-> <<>>] >>] >>

RECURSIVE ReduceProjects(_, _)
\* columns.reduce((count, col) => count + col.projects.length, count)
ReduceProjects(columns, count) ==
  IF columns = <<>> THEN count
  ELSE ReduceProjects(Tail(columns), count + Len(Head(columns).projects))

\* A createProject that numbers a project one above the highest number in use.
ReactCreateProjectAboveMax(m, columnId, project) ==
  LET bi == FindIndexById(m.boards, m.currentBoardId) IN
  IF bi = 0 THEN [m EXCEPT !.threw = TRUE] ELSE
  LET currentBoard == m.boards[bi]
      number == PlusOne(MaxNumber(BoardProjects(currentBoard.columns), <<0>>))
      newProject == [id |-> m.now,
                     projectId |-> IF project.projectId # <<>> THEN project.projectId
                                   ELSE currentBoard.projectId \o <<"-">> \o String(number),
                     projectName |-> project.projectName,
                     description |-> <<>>, comments |-> <<>>, links |-> <<>>,
                     createdAt |-> m.now]
  IN [m EXCEPT !.boards[bi].columns =
        [ci \in 1..Len(@) |-> IF @[ci].id = columnId
                              THEN [@[ci] EXCEPT !.projects = Append(@, newProject)]
                              ELSE @[ci]]]

\* createProject of the App component, for a project without description,
\* comments and links; reading columns of the missing current board throws.
ReactCreateProject(m, columnId, project) ==
  LET bi == FindIndexById(m.boards, m.currentBoardId) IN
  IF bi = 0 THEN [m EXCEPT !.threw = TRUE] ELSE
  LET currentBoard == m.boards[bi]
      projectCount == ReduceProjects(currentBoard.columns, 0) + 1
      newProject == [id |-> m.now,
                     projectId |-> IF project.projectId # <<>> THEN project.projectId
                                   ELSE currentBoard.projectId \o <<"-">>
                                          \o Decimal(projectCount),
                     projectName |-> project.projectName,
                     description |-> <<>>, comments |-> <<>>, links |-> <<>>,
                     createdAt |-> m.now]
  IN [m EXCEPT !.boards[bi].columns =
        [ci \in 1..Len(@) |-> IF @[ci].id = columnId
                              THEN [@[ci] EXCEPT !.projects = Append(@, newProject)]
                              ELSE @[ci]]]

\* deleteProject of the App component.
ReactDeleteProject(m, columnId, projectId) ==
  LET bi == FindIndexById(m.boards, m.currentBoardId) IN
  IF bi = 0 THEN m
  ELSE [m EXCEPT !.boards[bi].columns =
          [ci \in 1..Len(@) |->
             IF @[ci].id = columnId
             THEN [@[ci] EXCEPT !.projects = SelectSeq(@, LAMBDA q : q.id # projectId)]
             ELSE @[ci]]]

\* The App component after its first render, at a time after the epoch.
InitReact ==
  /\ boards = initialBoards
  /\ currentBoardId = 1
  /\ ids = 1
  /\ clock = 1
  /\ currentContext = NoContext
  /\ storageAvailable = FALSE
  /\ started = TRUE
  /\ timer = FALSE
  /\ dragState = NoDrag
  /\ blob = NoBlob
  /\ lastBackupTime = Null
  /\ file = NoFile
  /\ last = NoOp
  /\ field = <<>>
  /\ escaped = NotEscaped

\* The project form, submitted with a name and no display id.
RctCreateProject ==
  /\ clock <= MaxReactOps
  /\ \E ci \in 1..Len(boards[1].columns) :
       LET columnId == boards[1].columns[ci].id
           project == [projectId |-> <<>>, projectName |-> <<"P">>]
       IN Commit(ReactCreateProject(Machine(TRUE), columnId, project), "createProject",
                 <<columnId, project>>)

RctDeleteProject ==
  /\ clock <= MaxReactOps
  /\ \E ci \in 1..Len(boards[1].columns) :
     \E pi \in 1..Len(boards[1].columns[ci].projects) :
       LET columnId == boards[1].columns[ci].id
           projectId == boards[1].columns[ci].projects[pi].id
       IN Commit(ReactDeleteProject(Machine(TRUE), columnId, projectId), "deleteProject",
                 <<columnId, projectId>>)

NextReact ==
  \/ RctCreateProject
  \/ RctDeleteProject

SpecReact == InitReact /\ [][NextReact]_vars

ReactProjects == BoardProjects(boards[1].columns)

\* C40: in the React variant, after createProject calls without a display id
\* and deleteProject calls, the display ids of the projects of the board are
\* pairwise distinct.
ReactDisplayIdsDistinct ==
  Cardinality(DisplayIds(ReactProjects)) = Len(ReactProjects)

\* What the code does: the display ids are distinct as long as every call so
\* far was a createProject.
ReactDisplayIdsDistinctUntilDelete ==
  Len(ReactProjects) = clock - 1 => Cardinality(DisplayIds(ReactProjects)) = Len(ReactProjects)

\* Two projects hold the display id PROJ-2 after a deletion.
ReactDisplayIdTwice ==
  /\ last.op = "createProject"
  /\ Len(ReactProjects) = 2
  /\ \A i \in 1..2 : ReactProjects[i].projectId = <<"PROJ", "-", "2">>

\* Three projects were created one after the other and hold PROJ-1 to PROJ-3.
ReactCreatedThree ==
  /\ clock = 4
  /\ DisplayIds(ReactProjects) = {<<"PROJ", "-", "1">>, <<"PROJ", "-", "2">>, <<"PROJ", "-", "3">>}
====
